---- MODULE Spec2Model ----
(***************************************************************************)
(* Style-guide automation: rule store (rule_engine.py), document validator *)
(* (validator.py) and document corrector (corrector.py).                    *)
(*                                                                         *)
(* Python values are modelled as follows.                                  *)
(*   None                  the string "None"                               *)
(*   bool in a document    the strings "True" / "False" (tri-state with    *)
(*                         "None", as python-docx font.bold)               *)
(*   dict                  a record; `k in d` is  k \in DOMAIN d           *)
(*   list                  a sequence; Python index i is element i + 1     *)
(*   Length (EMU)          an integer number of EMU, 0 when unset          *)
(*   row_from_top          a tagged record: [kind |-> "int", n |-> k],     *)
(*                         [kind |-> "digits", n |-> k] (the string "k"),  *)
(*                         [kind |-> "range", start |-> a, end |-> b]      *)
(*                         (the string "a-b"), [kind |-> "all"],           *)
(*                         [kind |-> "badrange"] (a string with '-' whose  *)
(*                         parts are not integers), [kind |-> "other"]     *)
(***************************************************************************)
EXTENDS Integers, Sequences, FiniteSets, TLC

VARIABLES
    pc,                  \* position of the running handler
    file,                \* the document stored at document_path
    doc,                 \* the in-memory document of the running handler
    out,                 \* documents written to output_path, in order
    rules,               \* RuleEngine.rules
    rules_by_category,   \* RuleEngine.rules_by_category (positions into indexed)
    indexed,             \* the rule objects rules_by_category refers to
    aliased,             \* TRUE when indexed are the objects of rules['rules']
    cache_timestamp,     \* RuleEngine.cache_timestamp (0 = None)
    now,                 \* the clock
    rules_file,          \* content of the file at RuleEngine.rules_file
    violations,          \* DocumentValidator.violations / the list given to the corrector
    violation_counter,   \* DocumentValidator.violation_counter
    order,               \* sorted_violations, as positions into violations
    idx,                 \* number of loop iterations done in apply_corrections
    correction_results,  \* DocumentCorrector.correction_results
    attempts,            \* history: positions into violations, in attempt order
    opened,              \* history: the document as opened by the running handler
    job,                 \* the running correction: its mode and its counts
    io,                  \* whether Document(document_path) and doc.save succeed
    ret                  \* what the last handler returned or raised

vars == <<pc, file, doc, out, rules, rules_by_category, indexed, aliased,
          cache_timestamp, now, rules_file, violations, violation_counter,
          order, idx, correction_results, attempts, opened, job, io, ret>>

None == "None"

(***************************************************************************)
(* Bounds of the model                                                     *)
(***************************************************************************)
MaxParas == 2        \* paragraphs of a document in the pipeline
MaxRules == 2        \* rules of a rule file in the pipeline
MaxViolations == 3   \* violations handed to apply_corrections directly

(***************************************************************************)
(* Generic helpers                                                         *)
(***************************************************************************)
Range(s) == {s[i] : i \in DOMAIN s}

SeqsUpTo(S, n) == UNION {[1..k -> S] : k \in 0..n}

Min(a, b) == IF a < b THEN a ELSE b

Max(a, b) == IF a > b THEN a ELSE b

\* Python dict.get(key, default)
Get(d, key, default) == IF key \in DOMAIN d THEN d[key] ELSE default

\* Python list indexing seq[i]: negative i counts from the end
InRange(i, n) == i < n /\ i >= 0 - n

PyPos(i, n) == IF i < 0 THEN i + n + 1 ELSE i + 1

(***************************************************************************)
(* Document model (python-docx, external): a document has paragraphs and   *)
(* tables; a paragraph has text, alignment and runs; a run has font name,  *)
(* font size (EMU) and bold.                                               *)
(***************************************************************************)
Run(name, size, bold) ==
    [font_name |-> name, font_size |-> size, bold |-> bold, italic |-> None]

Paragraph(text, alignment, runs) ==
    [text |-> text, alignment |-> alignment, runs |-> runs]

Doc(paragraphs) == [paragraphs |-> paragraphs, tables |-> <<>>]

\* docx.shared.Pt(n): a Length of n points, in EMU
Pt(n) == n * 12700

RECURSIVE GCD(_, _)
GCD(a, b) == IF b = 0 THEN a ELSE GCD(b, a % b)

\* a Python number (int or float) as the ratio num / den in lowest terms, so
\* that 14 and 14.0 are the same value
Ratio(num, den) == [num |-> num \div GCD(num, den), den |-> den \div GCD(num, den)]

\* a whole number of a rule file
Number(n) == Ratio(n, 1)

\* None where a number is read
NoNumber == [none |-> TRUE]

\* Length.pt: the float emu / 12700.0
LengthPt(emu) == Ratio(emu, 12700)

\* WD_ALIGN_PARAGRAPH members and their integer values
AlignInt(member) ==
    CASE member = "LEFT" -> 0
      [] member = "CENTER" -> 1
      [] member = "RIGHT" -> 2
      [] member = "JUSTIFY" -> 3

\* str.lower() on the alignment names that occur in rule files
Lower(str) ==
    CASE str = "CENTER" -> "center"
      [] str = "Center" -> "center"
      [] str = "LEFT" -> "left"
      [] OTHER -> str

(***************************************************************************)
(* RuleEngine getters (rule_engine.py)                                     *)
(***************************************************************************)
\* self.rules.get('rules', [])
RulesList(rs) == Get(rs, "rules", <<>>)

RECURSIVE FilterEnabled(_)
FilterEnabled(rl) ==
    IF rl = <<>> THEN <<>>
    ELSE LET rest == FilterEnabled(Tail(rl))
         IN IF Get(Head(rl), "enabled", TRUE) THEN <<Head(rl)>> \o rest ELSE rest

get_enabled_rules(rs) == FilterEnabled(RulesList(rs))

RECURSIVE FirstWithId(_, _, _)
\* position of the first rule of rl, from position i on, whose rule_id is id; 0 if none
FirstWithId(rl, id, i) ==
    IF i > Len(rl) THEN 0
    ELSE IF Get(rl[i], "rule_id", None) = id THEN i
    ELSE FirstWithId(rl, id, i + 1)

\* get_rule_by_id: the rule, or None
get_rule_by_id(rs, id) ==
    LET p == FirstWithId(RulesList(rs), id, 1)
    IN IF p = 0 THEN None ELSE RulesList(rs)[p]

\* `if rule:` on the result of get_rule_by_id: a rule was found and it is not
\* an empty dict
HasRule(rs, id) ==
    LET p == FirstWithId(RulesList(rs), id, 1)
    IN p # 0 /\ DOMAIN RulesList(rs)[p] # {}

(***************************************************************************)
(* DocumentValidator (validator.py)                                        *)
(***************************************************************************)
\* _alignment_str_to_int
alignment_str_to_int(align_str) ==
    LET s == Lower(align_str)
    IN CASE s = "left" -> 0
         [] s = "center" -> 1
         [] s = "right" -> 2
         [] s = "justify" -> 3
         [] OTHER -> 0

\* an unset alignment read as the alignment of the enclosing style (centred)
get_alignment_as_int_inherited(alignment) ==
    IF alignment = None THEN 1 ELSE AlignInt(alignment)

\* _get_alignment_as_int: None means LEFT
get_alignment_as_int(alignment) ==
    IF alignment = None THEN 0 ELSE AlignInt(alignment)

\* _alignment_int_to_str
alignment_int_to_str(align_int) ==
    CASE align_int = 0 -> "left"
      [] align_int = 1 -> "center"
      [] align_int = 2 -> "right"
      [] align_int = 3 -> "justify"
      [] OTHER -> "left"

\* a paragraph without runs counts as bold
get_paragraph_bold_exempt(para) ==
    IF para.runs # <<>> THEN para.runs[1].bold ELSE "True"

\* _get_paragraph_bold
get_paragraph_bold(para) ==
    IF para.runs # <<>> THEN para.runs[1].bold ELSE None

\* _add_violation: bump the counter, append a Violation with that id
add_violation(st, rule, location, expected, actual, message) ==
    LET c == st.violation_counter + 1
        v == [violation_id |-> c,
              rule_id |-> Get(rule, "rule_id", None),
              location |-> location,
              expected |-> expected,
              actual |-> actual,
              message |-> message,
              correction_status |-> "pending"]
    IN [st EXCEPT !.violation_counter = c,
                  !.violations = Append(st.violations, v)]

RECURSIVE SelectKeys(_, _, _)
\* the keys of the sequence keys, from position i on, that are in S
SelectKeys(keys, S, i) ==
    IF i > Len(keys) THEN <<>>
    ELSE IF keys[i] \in S THEN <<keys[i]>> \o SelectKeys(keys, S, i + 1)
    ELSE SelectKeys(keys, S, i + 1)

\* every key of expected is listed
generate_message_all(para_index, keys, expected, actual) ==
    [row |-> para_index + 1, differences |-> keys]

\* _generate_message: the row and, in the insertion order of expected (keys),
\* the keys whose expected and actual values differ
generate_message(para_index, keys, expected, actual) ==
    [row |-> para_index + 1,
     differences |->
        SelectKeys(keys, {k \in DOMAIN expected :
                            k \in DOMAIN actual /\ expected[k] # actual[k]}, 1)]

\* the alignment, bold, font_name and font_size checks of _validate_paragraph:
\* [found, expected, actual] for one paragraph
CheckParagraph(para, validation) ==
    LET hasA == "alignment" \in DOMAIN validation
        hasB == "bold" \in DOMAIN validation
        hasN == "font_name" \in DOMAIN validation
        hasS == "font_size" \in DOMAIN validation
        hasRuns == para.runs # <<>>
        expA == Lower(validation.alignment)
        actA == get_alignment_as_int(para.alignment)
        badA == hasA /\ alignment_str_to_int(expA) # actA
        actB == get_paragraph_bold(para)
        normB == IF actB = None THEN "False" ELSE actB
        badB == hasB /\ validation.bold # normB
        actN == para.runs[1].font_name
        badN == hasRuns /\ hasN /\ actN # None /\ actN # validation.font_name
        actS == IF para.runs[1].font_size # 0
                THEN LengthPt(para.runs[1].font_size) ELSE NoNumber
        badS == /\ hasRuns
                /\ hasS
                /\ actS # NoNumber
                /\ actS # Number(validation.font_size)
        expected ==
            [k \in {k \in {"alignment", "bold", "font_name", "font_size"} :
                        k \in DOMAIN validation} |->
                CASE k = "alignment" -> expA
                  [] k = "font_size" -> Number(validation[k])
                  [] OTHER -> validation[k]]
        actual ==
            [k \in DOMAIN expected |->
                CASE k = "alignment" -> alignment_int_to_str(actA)
                  [] k = "bold" -> actB
                  [] k = "font_name" ->
                        IF ~hasRuns THEN None
                        ELSE IF actN = None \/ actN = "" THEN "default" ELSE actN
                  [] k = "font_size" -> IF hasRuns THEN actS ELSE NoNumber]
        keys == SelectKeys(IF hasRuns
                           THEN <<"alignment", "bold", "font_name", "font_size">>
                           ELSE <<"alignment", "bold", "font_size", "font_name">>,
                           DOMAIN expected, 1)
    IN [found |-> badA \/ badB \/ badN \/ badS,
        expected |-> expected, actual |-> actual, keys |-> keys]

\* _validate_paragraph; st = [violations, violation_counter, raised]
validate_paragraph(d, para_index, rule, st) ==
    LET n == Len(d.paragraphs)
    IN IF para_index >= n THEN st
       ELSE IF ~InRange(para_index, n) THEN [st EXCEPT !.raised = TRUE]
       ELSE LET para == d.paragraphs[PyPos(para_index, n)]
                chk == CheckParagraph(para, Get(rule, "validation", <<>>))
            IN IF chk.found
               THEN add_violation(st, rule,
                        [page |-> 1, paragraph |-> para_index, row |-> para_index + 1],
                        chk.expected, chk.actual,
                        generate_message(para_index, chk.keys, chk.expected, chk.actual))
               ELSE st

RECURSIVE ValidateRows(_, _, _, _, _)
\* the loops of _validate_cover_page_rule over para_index = lo .. hi - 1
ValidateRows(d, lo, hi, rule, st) ==
    IF lo >= hi \/ st.raised THEN st
    ELSE ValidateRows(d, lo + 1, hi, rule, validate_paragraph(d, lo, rule, st))

\* _validate_cover_page_rule
validate_cover_page_rule(d, rule, st) ==
    LET location == Get(rule, "location", <<>>)
        n == Len(d.paragraphs)
    IN IF "row_from_top" \notin DOMAIN location THEN st
       ELSE LET r == location.row_from_top
            IN CASE r.kind \in {"int", "digits"} ->
                        validate_paragraph(d, r.n - 1, rule, st)
                 [] r.kind = "range" ->
                        ValidateRows(d, r.start - 1, Min(r.end, n), rule, st)
                 [] r.kind = "badrange" -> [st EXCEPT !.raised = TRUE]
                 [] r.kind = "all" -> ValidateRows(d, 0, Min(30, n), rule, st)
                 [] OTHER -> st

Abs(x) == IF x < 0 THEN 0 - x ELSE x

RECURSIVE Pow2(_)
Pow2(n) == IF n = 0 THEN 1 ELSE 2 * Pow2(n - 1)

RECURSIVE Pow2Mod25(_)
Pow2Mod25(n) == IF n = 0 THEN 1 ELSE (2 * Pow2Mod25(n - 1)) % 25

RECURSIVE BinadeUp(_, _)
BinadeUp(p, e) == IF 25 * Pow2(e + 1) <= p THEN BinadeUp(p, e + 1) ELSE e

RECURSIVE BinadeDown(_, _)
BinadeDown(p, e) == IF 25 > p * Pow2(e) THEN BinadeDown(p, e + 1) ELSE 0 - e

\* the binary exponent of p / 25, p > 0: the largest e with 25 * 2^e <= p
Binade(p) == IF p >= 25 THEN BinadeUp(p, 0) ELSE BinadeDown(p, 0)

\* the rounding error of the double nearest to p / 100, p > 0 (the same as
\* that of p / 25 but for the scale): double(p / 25) is
\* (p * 2^s + RoundingError(p)) / (25 * 2^s) with s = 52 - Binade(p), the
\* 53-bit quotient rounded to nearest
RoundingError(p) ==
    LET r == ((p % 25) * Pow2Mod25(52 - Binade(p))) % 25
    IN IF r <= 12 THEN 0 - r ELSE 25 - r

\* abs(a - b) > t in double arithmetic for a = A / 100, b = E / 100 and
\* t = T / 100 when |A - E| = T exactly (A, E, T > 0): the difference of the
\* two doubles, rounded to the doubles around t, is above t
FloatDiffExceeds(A, E, T) ==
    LET eA == Binade(A)
        eE == Binade(E)
        eT == Binade(T)
        K == Max(0, Max(eT - eA, eT - eE))
        sgn == IF A > E THEN 1 ELSE 0 - 1
        N2 == 2 * (sgn * (RoundingError(A) * Pow2(K + eA - eT)
                            - RoundingError(E) * Pow2(K + eE - eT))
                   - RoundingError(T) * Pow2(K))
        half == 25 * Pow2(K)
    IN \/ N2 > half
       \/ N2 = half /\ RoundingError(T) % 2 = 1

\* abs(length.cm - expected) > tolerance for a length in EMU, expected and
\* tolerance in hundredths of a centimetre (expected >= 0): decided by the
\* exact values unless the difference is exactly the tolerance, where the
\* rounding of the doubles decides
CmDiffers(emu, expected, tolerance) ==
    LET d == Abs(100 * emu - 360000 * expected)
    IN \/ d > 360000 * tolerance
       \/ /\ d = 360000 * tolerance
          /\ expected > 0
          /\ FloatDiffExceeds(emu \div 3600, expected, tolerance)

\* round(length.cm, 2) of a length in EMU, in hundredths of a centimetre:
\* the double emu / 360000.0 rounded to two places; half a hundredth goes the
\* way the double lies, and to the even hundredth when the double is exact
CmRounded(emu) ==
    LET h == emu \div 3600
        rem == emu % 3600
        n == 2 * h + 1
    IN IF rem < 1800 THEN h
       ELSE IF rem > 1800 THEN h + 1
       ELSE IF n % 25 = 0 THEN (IF h % 2 = 0 THEN h ELSE h + 1)
       ELSE IF RoundingError(n) > 0 THEN h + 1 ELSE h

\* any(c.isdigit() or c == '$' for c in text), for the texts of table runs
HasDigitOrDollar(text) == text \in {"2023", "2022", "4", "$100", "$90"}

\* `if row.height:` and `abs(actual_height - expected_height) > 0.05`, for a
\* height in EMU (0 for a row whose height is unset or zero) and an expected
\* height in hundredths of a centimetre
RowHeightDiffers(height, expected) ==
    height # 0 /\ CmDiffers(height, expected, 5)

RECURSIVE CheckRowHeights(_, _, _, _, _)
\* the TABLE_ROW_HEIGHT loop over the rows from row_idx on; heights are
\* compared in centimetres, expected in hundredths (default 0.37)
CheckRowHeights(table, table_idx, rule, row_idx, st) ==
    IF row_idx >= Len(table.rows) THEN st
    ELSE LET expected == Get(Get(rule, "validation", <<>>), "row_height", 37)
             height == table.rows[row_idx + 1].height
             st1 == IF RowHeightDiffers(height, expected)
                    THEN add_violation(st, rule,
                             [table |-> table_idx, row |-> row_idx],
                             [row_height_cm |-> expected],
                             [row_height_cm |-> CmRounded(height)],
                             [table |-> table_idx, row |-> row_idx,
                              height |-> CmRounded(height), expected |-> expected])
                    ELSE st
         IN CheckRowHeights(table, table_idx, rule, row_idx + 1, st1)

RECURSIVE CheckColumnWidths(_, _, _, _, _)
\* the TABLE_VALUE_COLUMN_WIDTH loop over the columns from col_idx on
\* (expected in hundredths of a centimetre, default 2.3)
CheckColumnWidths(table, table_idx, rule, col_idx, st) ==
    IF col_idx >= Len(table.columns) THEN st
    ELSE LET expected == Get(Get(rule, "validation", <<>>), "column_width", 230)
             width == table.columns[col_idx + 1]
             st1 == IF width # 0 /\ CmDiffers(width, expected, 10)
                    THEN add_violation(st, rule,
                             [table |-> table_idx, column |-> col_idx],
                             [column_width_cm |-> expected],
                             [column_width_cm |-> CmRounded(width)],
                             [table |-> table_idx, column |-> col_idx,
                              width |-> CmRounded(width), expected |-> expected])
                    ELSE st
         IN CheckColumnWidths(table, table_idx, rule, col_idx + 1, st1)

RECURSIVE CheckCellBold(_, _, _, _, _)
\* the paragraph loop over the last cell of a row: the run loop goes on
\* while numeric runs are bold and breaks at the first that is not
CheckCellBold(paras, k, rule, location, st) ==
    IF k > Len(paras) THEN st
    ELSE LET runs == paras[k].runs
             numeric == {i \in DOMAIN runs :
                            HasDigitOrDollar(runs[i].text) /\ runs[i].bold # "True"}
             st1 == IF numeric # {}
                    THEN add_violation(st, rule, location,
                             [bold |-> "True"], [bold |-> "False"],
                             [table |-> location.table, row |-> location.row])
                    ELSE st
         IN CheckCellBold(paras, k + 1, rule, location, st1)

RECURSIVE CheckCurrentPeriodBold(_, _, _, _, _)
\* the BALANCE_SHEET_CURRENT_PERIOD_BOLD loop over table.rows[1:]
CheckCurrentPeriodBold(table, table_idx, rule, row_idx, st) ==
    IF row_idx >= Len(table.rows) THEN st
    ELSE LET cells == table.rows[row_idx + 1].cells
             st1 == IF Len(cells) > 0
                    THEN CheckCellBold(cells[Len(cells)].paragraphs, 1, rule,
                             [table |-> table_idx, row |-> row_idx,
                              column |-> Len(cells) - 1], st)
                    ELSE st
         IN CheckCurrentPeriodBold(table, table_idx, rule, row_idx + 1, st1)

RECURSIVE ValidateTables(_, _, _, _)
\* the table loop of _validate_table_rule from table_idx on
ValidateTables(d, table_idx, rule, st) ==
    IF table_idx >= Len(d.tables) THEN st
    ELSE LET table == d.tables[table_idx + 1]
             rule_id == Get(rule, "rule_id", None)
             st1 == CASE rule_id = "TABLE_ROW_HEIGHT" ->
                            CheckRowHeights(table, table_idx, rule, 0, st)
                      [] rule_id = "TABLE_VALUE_COLUMN_WIDTH" ->
                            CheckColumnWidths(table, table_idx, rule,
                                Max(0, Len(table.columns) - 3), st)
                      [] rule_id = "BALANCE_SHEET_CURRENT_PERIOD_BOLD" ->
                            CheckCurrentPeriodBold(table, table_idx, rule, 1, st)
                      [] OTHER -> st
         IN ValidateTables(d, table_idx + 1, rule, st1)

\* _validate_table_rule
validate_table_rule(d, rule, st) ==
    IF d.tables = <<>> THEN st ELSE ValidateTables(d, 0, rule, st)

\* _validate_rule: dispatch on the category
validate_rule(d, rule, st) ==
    LET category == Get(rule, "category", None)
    IN CASE category = "cover_page" -> validate_cover_page_rule(d, rule, st)
         [] category \in {"table_structure", "table_formatting"} ->
                validate_table_rule(d, rule, st)
         [] OTHER -> st

TryValidateRuleUncaught(d, rule, st) == validate_rule(d, rule, st)

\* one iteration of the rule loop of validate_document: the try/except around
\* _validate_rule logs the exception and goes on to the next rule
TryValidateRule(d, rule, st) ==
    [validate_rule(d, rule, st) EXCEPT !.raised = FALSE]

RECURSIVE ValidateRules(_, _, _)
\* the rule loop of validate_document; an exception that leaves an iteration
\* leaves the loop
ValidateRules(d, rl, st) ==
    IF rl = <<>> \/ st.raised THEN st
    ELSE ValidateRules(d, Tail(rl), TryValidateRule(d, Head(rl), st))

ResetValidatorKeepCounter(counter) ==
    [violations |-> <<>>, violation_counter |-> counter, raised |-> FALSE]

\* the reset at the start of validate_document
ResetValidator(counter) ==
    [violations |-> <<>>, violation_counter |-> 0, raised |-> FALSE]

\* validate_document on document d, by a validator whose counter is `counter`:
\* the validator state when the rule loop is left
validate_document(d, rs, counter) ==
    ValidateRules(d, get_enabled_rules(rs), ResetValidator(counter))

(***************************************************************************)
(* DocumentCorrector, rule-driven mode (corrector.py)                      *)
(***************************************************************************)
\* a rule without a priority sorts first
get_rule_priority_first(rs, rule_id) ==
    LET rule == get_rule_by_id(rs, rule_id)
    IN IF HasRule(rs, rule_id) THEN Get(rule, "priority", 0) ELSE 0

\* _get_rule_priority
get_rule_priority(rs, rule_id) ==
    LET rule == get_rule_by_id(rs, rule_id)
    IN IF HasRule(rs, rule_id) THEN Get(rule, "priority", 999) ELSE 999

RECURSIVE InsertUnstable(_, _, _)
InsertUnstable(s, p, keys) ==
    IF s = <<>> THEN <<p>>
    ELSE IF keys[Head(s)] < keys[p]
         THEN <<Head(s)>> \o InsertUnstable(Tail(s), p, keys)
         ELSE <<p>> \o s

RECURSIVE InsertStable(_, _, _)
\* s sorted by key: p goes after every element whose key is <= its own
InsertStable(s, p, keys) ==
    IF s = <<>> THEN <<p>>
    ELSE IF keys[Head(s)] <= keys[p]
         THEN <<Head(s)>> \o InsertStable(Tail(s), p, keys)
         ELSE <<p>> \o s

RECURSIVE SortPositions(_, _)
\* sorted(): the positions 1..k in ascending key order, ties in input order
SortPositions(k, keys) ==
    IF k = 0 THEN <<>>
    ELSE InsertStable(SortPositions(k - 1, keys), k, keys)

\* sorted(violations, key=lambda v: self._get_rule_priority(v.rule_id))
sorted_violations(vs, rs) ==
    SortPositions(Len(vs),
        [p \in 1..Len(vs) |-> get_rule_priority(rs, vs[p].rule_id)])

\* _parse_alignment
parse_alignment(alignment_str) ==
    LET s == Lower(alignment_str)
    IN CASE s = "left" -> "LEFT"
         [] s = "center" -> "CENTER"
         [] s = "right" -> "RIGHT"
         [] s = "justify" -> "JUSTIFY"
         [] OTHER -> "LEFT"

\* the paragraph lookup shared by the two mutations: "ok", or the exception
ParagraphLookup(d, violation) ==
    IF "paragraph" \notin DOMAIN violation.location THEN "ValueError"
    ELSE IF violation.location.paragraph >= Len(d.paragraphs) THEN "ValueError"
    ELSE IF ~InRange(violation.location.paragraph, Len(d.paragraphs)) THEN "IndexError"
    ELSE "ok"

\* the runs loop of _apply_formatting_violation
FormatRun(run, props) ==
    [font_name |-> IF "font_name" \in DOMAIN props THEN props.font_name
                   ELSE run.font_name,
     font_size |-> IF "font_size" \in DOMAIN props THEN Pt(props.font_size)
                   ELSE run.font_size,
     bold |-> IF "bold" \in DOMAIN props THEN props.bold ELSE run.bold,
     italic |-> run.italic]

SetAlignment(para, props) ==
    IF "alignment" \in DOMAIN props
    THEN [para EXCEPT !.alignment = parse_alignment(props.alignment)]
    ELSE para

\* _apply_formatting_violation on a paragraph that was found
apply_formatting_violation(d, violation, action) ==
    LET n == Len(d.paragraphs)
        pos == PyPos(violation.location.paragraph, n)
        props == Get(action, "properties", <<>>)
        para == SetAlignment(d.paragraphs[pos], props)
        runs == [i \in DOMAIN para.runs |-> FormatRun(para.runs[i], props)]
    IN [d EXCEPT !.paragraphs[pos] = [para EXCEPT !.runs = runs]]

\* _apply_alignment_violation on a paragraph that was found
apply_alignment_violation(d, violation, action) ==
    LET n == Len(d.paragraphs)
        pos == PyPos(violation.location.paragraph, n)
        props == Get(action, "properties", <<>>)
    IN [d EXCEPT !.paragraphs[pos] = SetAlignment(d.paragraphs[pos], props)]

CorrectionResult(violation, status, error_details) ==
    [violation_id |-> violation.violation_id,
     rule_id |-> violation.rule_id,
     status |-> status,
     error_details |-> error_details]

FailedResultNoDetails(violation, error) ==
    CorrectionResult(violation, "failed", None)

\* the except branches: a failed result carrying the error text
FailedResult(violation, error) == CorrectionResult(violation, "failed", error)

\* a correction_action that is not a dict is modelled as [str |-> text]
IsMap(action) == "str" \notin DOMAIN action

DispatchesToDefault(action_type) ==
    CASE action_type = "apply_alignment" -> "alignment"
      [] OTHER -> "formatting"

\* the dispatch of _apply_correction on the action type
DispatchesTo(action_type) ==
    CASE action_type = "apply_formatting" -> "formatting"
      [] action_type = "apply_alignment" -> "alignment"
      [] OTHER -> "skip"

\* _apply_correction: [doc, result, raised]; raised when the exception leaves
\* _apply_correction (the action is not a dict)
apply_correction(d, violation, rs) ==
    LET rule == get_rule_by_id(rs, violation.rule_id)
        action == Get(rule, "correction_action", <<>>)
        action_type == Get(action, "type", None)
        branch == DispatchesTo(action_type)
        look == ParagraphLookup(d, violation)
    IN IF ~HasRule(rs, violation.rule_id)
       THEN [doc |-> d, raised |-> FALSE,
             result |-> CorrectionResult(violation, "failed", None)]
       ELSE IF ~IsMap(action)
       THEN [doc |-> d, raised |-> TRUE,
             result |-> FailedResult(violation, "AttributeError")]
       ELSE IF branch = "skip"
       THEN [doc |-> d, raised |-> FALSE,
             result |-> CorrectionResult(violation, "skipped", None)]
       ELSE IF look # "ok"
       THEN [doc |-> d, raised |-> FALSE,
             result |-> FailedResult(violation, look)]
       ELSE [doc |-> IF branch = "formatting"
                     THEN apply_formatting_violation(d, violation, action)
                     ELSE apply_alignment_violation(d, violation, action),
             raised |-> FALSE,
             result |-> CorrectionResult(violation, "applied", None)]

save_nothing(written, d) == written

\* doc.save(output_path): one more write of the output document
save(written, d) == Append(written, d)

\* the loop leaves the last violation out
MoreToCorrectButLast(i, ord) == i + 1 < Len(ord)

\* the loop condition of apply_corrections: violations are left to attempt
MoreToCorrect(i, ord) == i < Len(ord)

\* how many results have the status
CountStatus(results, status) ==
    Cardinality({k \in DOMAIN results : results[k].status = status})

get_correction_stats(results) ==
    [total |-> Len(results),
     applied |-> CountStatus(results, "applied"),
     failed |-> CountStatus(results, "failed"),
     skipped |-> CountStatus(results, "skipped")]

(***************************************************************************)
(* RuleEngine index (rule_engine.py)                                       *)
(***************************************************************************)
CategoryOf(rule) == Get(rule, "category", "unknown")

RECURSIVE PositionsOfCategory(_, _, _)
\* positions i..Len(rl) of the rules of category c, ascending
PositionsOfCategory(rl, c, i) ==
    IF i > Len(rl) THEN <<>>
    ELSE IF CategoryOf(rl[i]) = c
         THEN <<i>> \o PositionsOfCategory(rl, c, i + 1)
         ELSE PositionsOfCategory(rl, c, i + 1)

\* _organize_rules_by_category: category -> the rules of that category, in
\* rule-list order (as positions of the rule objects)
organize_rules_by_category(rl) ==
    [c \in {CategoryOf(rl[i]) : i \in DOMAIN rl} |-> PositionsOfCategory(rl, c, 1)]

(***************************************************************************)
(* Inputs                                                                  *)
(***************************************************************************)
EmptyPara == Paragraph("", None, <<>>)

\* paragraphs of the documents that are validated and corrected
ParaPool ==
    { EmptyPara,
      Paragraph("Body", "CENTER", <<Run("Arial", Pt(14), "True")>>),
      Paragraph("", "CENTER", <<>>),
      Paragraph("Body", "LEFT", <<Run(None, 0, None)>>),
      Paragraph("Body", None,
                <<Run("Arial", Pt(14), "True"), Run("Times", Pt(12), "False")>>) }

Docs == {Doc(ps) : ps \in SeqsUpTo(ParaPool, MaxParas)}

NoDoc == Doc(<<>>)

RuleAlign ==
    [rule_id |-> "ALIGN", category |-> "cover_page", priority |-> 1,
     location |-> [row_from_top |-> [kind |-> "all"]],
     validation |-> [alignment |-> "Center"],
     correction_action |->
        [type |-> "apply_alignment", properties |-> [alignment |-> "center"]]]

RuleCompany ==
    [rule_id |-> "COMPANY", category |-> "cover_page", priority |-> 5,
     location |-> [row_from_top |-> [kind |-> "int", n |-> 1]],
     validation |-> [alignment |-> "center", bold |-> "True",
                     font_name |-> "Arial", font_size |-> 14],
     correction_action |->
        [type |-> "apply_formatting",
         properties |-> [alignment |-> "center", bold |-> "True",
                         font_name |-> "Arial", font_size |-> 14,
                         italic |-> "False"]]]

RuleBlank ==
    [rule_id |-> "BLANK", category |-> "cover_page", enabled |-> TRUE,
     location |-> [row_from_top |-> [kind |-> "range", start |-> 2, end |-> 3]],
     validation |-> [is_blank |-> TRUE, alignment |-> "center"],
     correction_action |-> [type |-> "ensure_blank_row", properties |-> <<>>]]

RuleBad ==
    [rule_id |-> "BAD", category |-> "cover_page", priority |-> 3,
     location |-> [row_from_top |-> [kind |-> "badrange"]],
     validation |-> [alignment |-> "center"],
     correction_action |->
        [type |-> "apply_alignment", properties |-> [alignment |-> "center"]]]

RuleNeg ==
    [rule_id |-> "NEG", category |-> "cover_page", priority |-> 5,
     location |-> [row_from_top |-> [kind |-> "int", n |-> 0 - 1]],
     validation |-> [alignment |-> "center"],
     correction_action |->
        [type |-> "apply_alignment", properties |-> [alignment |-> "center"]]]

RuleOff ==
    [rule_id |-> "OFF", category |-> "table_formatting", priority |-> 2,
     enabled |-> FALSE,
     location |-> [row_from_top |-> [kind |-> "digits", n |-> 1]],
     validation |-> [alignment |-> "center"],
     correction_action |-> [type |-> "apply_alignment", properties |-> <<>>]]

\* a rule with font expectations that expects no bold
RulePlain ==
    [rule_id |-> "PLAIN", category |-> "cover_page", priority |-> 4,
     location |-> [row_from_top |-> [kind |-> "int", n |-> 2]],
     validation |-> [alignment |-> "center", bold |-> "False",
                     font_name |-> "Times", font_size |-> 12],
     correction_action |->
        [type |-> "apply_formatting",
         properties |-> [bold |-> "False", font_name |-> "Times",
                         font_size |-> 12]]]

RulePool ==
    {RuleAlign, RuleCompany, RuleBlank, RuleBad, RuleNeg, RuleOff, RulePlain}

RuleSource(rl) == [version |-> "1.0", rules |-> rl]

\* a file that exists and holds the JSON value data
RulesFile(data) == [exists |-> TRUE, json |-> TRUE, data |-> data]

\* rule files that load_rules accepts
RuleFiles == {RuleSource(rl) : rl \in SeqsUpTo(RulePool, MaxRules)}

(***************************************************************************)
(* Handlers                                                                *)
(***************************************************************************)
StoreVars == <<rules, rules_by_category, indexed, aliased, cache_timestamp,
               now, rules_file>>

CorrectorVars == <<doc, out, order, idx, correction_results, attempts, opened, job>>

\* DocumentValidator.validate_document, on the input document or, after a
\* correction in any of the three modes, on the corrected document
ValidateDocument ==
    /\ pc \in {"idle", "corrected", "done"}
    /\ IF io.open_ok
       THEN LET d == IF pc = "idle" THEN file ELSE out[Len(out)]
                st == validate_document(d, rules, violation_counter)
            IN /\ violations' = st.violations
               /\ violation_counter' = st.violation_counter
               /\ ret' = [kind |-> IF st.raised THEN "raise" ELSE "violations"]
               /\ pc' = IF pc = "idle" THEN "validated" ELSE "revalidated"
       ELSE /\ violations' = <<>>
            /\ violation_counter' = 0
            /\ ret' = [kind |-> "raise"]
            /\ pc' = "failed"
    /\ UNCHANGED <<file, io, StoreVars, CorrectorVars>>

\* apply_corrections up to the loop: reset the results, open the document,
\* sort the violations
ApplyCorrectionsBegin ==
    /\ pc = "validated"
    /\ correction_results' = <<>>
    /\ out' = <<>>
    /\ job' = [mode |-> "rules"]
    /\ IF io.open_ok
       THEN /\ pc' = "correcting"
            /\ doc' = file
            /\ opened' = file
            /\ order' = sorted_violations(violations, rules)
            /\ idx' = 0
            /\ attempts' = <<>>
            /\ ret' = [kind |-> "running"]
       ELSE /\ pc' = "failed"
            /\ ret' = [kind |-> "raise"]
            /\ UNCHANGED <<doc, opened, order, idx, attempts>>
    /\ UNCHANGED <<file, io, StoreVars, violations, violation_counter>>

\* one iteration of the loop of apply_corrections
ApplyCorrectionStep ==
    /\ pc = "correcting"
    /\ MoreToCorrect(idx, order)
    /\ LET p == order[idx + 1]
           r == apply_correction(doc, violations[p], rules)
       IN /\ doc' = r.doc
          /\ correction_results' = Append(correction_results, r.result)
          /\ violations' =
                IF r.raised THEN violations
                ELSE [violations EXCEPT ![p].correction_status = r.result.status]
          /\ attempts' = Append(attempts, p)
    /\ idx' = idx + 1
    /\ UNCHANGED <<pc, file, io, out, order, opened, job, ret, StoreVars, violation_counter>>

\* apply_corrections after the loop: doc.save(output_path), return the results
ApplyCorrectionsSave ==
    /\ pc = "correcting"
    /\ ~MoreToCorrect(idx, order)
    /\ IF io.save_ok
       THEN /\ out' = save(out, doc)
            /\ pc' = "corrected"
            /\ ret' = [kind |-> "results"]
       ELSE /\ out' = out
            /\ pc' = "failed"
            /\ ret' = [kind |-> "raise"]
    /\ UNCHANGED <<file, io, doc, order, idx, correction_results, attempts, opened, job,
                   StoreVars, violations, violation_counter>>

(***************************************************************************)
(* Pipeline: validate, correct, validate again                             *)
(***************************************************************************)
InitStore(src) ==
    /\ rules = src
    /\ indexed = RulesList(src)
    /\ rules_by_category = organize_rules_by_category(RulesList(src))
    /\ aliased = TRUE
    /\ cache_timestamp = 1
    /\ now = 1
    /\ rules_file = RulesFile(src)

\* the document opens and the output path can be written
IoOk == [open_ok |-> TRUE, save_ok |-> TRUE]

InitIdle ==
    /\ doc = NoDoc
    /\ opened = NoDoc
    /\ out = <<>>
    /\ violation_counter = 0
    /\ order = <<>>
    /\ idx = 0
    /\ correction_results = <<>>
    /\ attempts = <<>>
    /\ job = [mode |-> "none"]
    /\ ret = [kind |-> "none"]

Init ==
    /\ pc = "idle"
    /\ file \in Docs
    /\ \E src \in RuleFiles : InitStore(src)
    /\ violations = <<>>
    /\ InitIdle
    /\ io = IoOk

Next ==
    \/ ValidateDocument
    \/ ApplyCorrectionsBegin
    \/ ApplyCorrectionStep
    \/ ApplyCorrectionsSave

Spec == Init /\ [][Next]_vars

(***************************************************************************)
(* apply_corrections on any list of violations                             *)
(***************************************************************************)
RuleText ==
    [rule_id |-> "TEXT", category |-> "cover_page", priority |-> 1,
     location |-> [row_from_top |-> [kind |-> "int", n |-> 1]],
     validation |-> [alignment |-> "center"],
     correction_action |-> [str |-> "center the paragraph"]]

RuleOdd ==
    [rule_id |-> "ODD", category |-> "cover_page", priority |-> 5,
     location |-> [row_from_top |-> [kind |-> "int", n |-> 1]],
     validation |-> [alignment |-> "center"],
     correction_action |->
        [type |-> "rotate_page", properties |-> [alignment |-> "center"]]]

\* priorities 5, 1, 999 (none declared), 1 and 5
CorrStore == RuleSource(<<RuleCompany, RuleAlign, RuleBlank, RuleText, RuleOdd>>)

CorrDoc == Doc(<<Paragraph("Body", "LEFT", <<Run(None, 0, None)>>), EmptyPara>>)

\* a violation of a rule of the store or of a rule the store does not have, at
\* a paragraph of the document, past its end, or at a table cell
ViolationShapes ==
    [rule_id : {"COMPANY", "ALIGN", "BLANK", "TEXT", "ODD", "GONE"},
     location : {[page |-> 1, paragraph |-> 0, row |-> 1],
                 [page |-> 1, paragraph |-> 2, row |-> 3],
                 [table |-> 0, row |-> 1]}]

ViolationList(shapes) ==
    [i \in DOMAIN shapes |->
        [violation_id |-> i,
         rule_id |-> shapes[i].rule_id,
         location |-> shapes[i].location,
         expected |-> <<>>,
         actual |-> <<>>,
         correction_status |-> "pending"]]

InitCorr ==
    /\ pc = "validated"
    /\ file = CorrDoc
    /\ InitStore(CorrStore)
    /\ \E shapes \in SeqsUpTo(ViolationShapes, MaxViolations) :
            violations = ViolationList(shapes)
    /\ InitIdle
    /\ io = IoOk

NextCorr ==
    \/ ApplyCorrectionsBegin
    \/ ApplyCorrectionStep
    \/ ApplyCorrectionsSave

SpecCorr == InitCorr /\ [][NextCorr]_vars

(***************************************************************************)
(* Properties of apply_corrections                                         *)
(***************************************************************************)
\* the priority apply_corrections sorts the violation at position p by
AttemptPriority(p) == get_rule_priority(rules, violations[p].rule_id)

RECURSIVE DocAfter(_, _, _)
\* the document after the first k attempts, made one after the other on d
DocAfter(d, ats, k) ==
    IF k = 0 THEN d
    ELSE apply_correction(DocAfter(d, ats, k - 1), violations[ats[k]], rules).doc

\* C1: the corrections are attempted in non-decreasing order of the priority
\* of the violation's rule, violations of equal priority in the order of the
\* input list, and the document holds the mutations of all attempts made so
\* far, one after the other, before the next attempt begins.
C1_PriorityOrder ==
    /\ \A i, j \in DOMAIN attempts :
          i < j =>
            /\ AttemptPriority(attempts[i]) <= AttemptPriority(attempts[j])
            /\ AttemptPriority(attempts[i]) = AttemptPriority(attempts[j])
                  => attempts[i] < attempts[j]
    /\ pc \in {"correcting", "corrected"} =>
          /\ Len(correction_results) = Len(attempts)
          /\ doc = DocAfter(opened, attempts, Len(attempts))
    /\ pc = "corrected" => Range(attempts) = DOMAIN violations

\* a priority-1 violation that came after a priority-5 violation in the input
\* has been attempted, its mutation is in the document, and the priority-5
\* violation is the next one to attempt
C1_Witness ==
    /\ pc = "correcting"
    /\ idx = 1
    /\ MoreToCorrect(idx, order)
    /\ AttemptPriority(attempts[1]) = 1
    /\ AttemptPriority(order[2]) = 5
    /\ order[2] < attempts[1]
    /\ doc # opened

\* the violation's location has no paragraph index, or one not less than the
\* paragraph count of the document
OutOfBounds(violation) ==
    \/ "paragraph" \notin DOMAIN violation.location
    \/ violation.location.paragraph >= Len(doc.paragraphs)

\* the violation's rule is in the store and its action type is one the
\* corrector dispatches to a mutation
Dispatched(violation) ==
    /\ HasRule(rules, violation.rule_id)
    /\ LET action == get_rule_by_id(rules, violation.rule_id).correction_action
       IN /\ IsMap(action)
          /\ "type" \in DOMAIN action
          /\ action.type \in {"apply_formatting", "apply_alignment"}

AllAttemptedAndSaved ==
    pc = "corrected" =>
        /\ Len(attempts) = Len(violations)
        /\ Len(correction_results) = Len(violations)
        /\ Len(out) = 1

\* C2 as claimed: every violation whose location is out of bounds yields a
\* failed result with error_details, the later violations are attempted and
\* the document is saved.
C2_OutOfBoundsFails ==
    /\ \A k \in DOMAIN correction_results :
          OutOfBounds(violations[attempts[k]]) =>
            /\ correction_results[k].status = "failed"
            /\ correction_results[k].error_details # None
    /\ AllAttemptedAndSaved

\* C2 amended: a violation whose rule is in the store with action type
\* apply_formatting or apply_alignment and whose location is out of bounds
\* yields a failed result with error_details; the later violations are
\* attempted and the document is saved.
C2_DispatchedOutOfBoundsFails ==
    /\ \A k \in DOMAIN correction_results :
          (OutOfBounds(violations[attempts[k]]) /\ Dispatched(violations[attempts[k]])) =>
            /\ correction_results[k].status = "failed"
            /\ correction_results[k].error_details # None
    /\ AllAttemptedAndSaved

\* an out-of-bounds correction failed, a correction attempted after it was
\* applied, and the document was saved
C2_Witness ==
    /\ pc = "corrected"
    /\ Len(out) = 1
    /\ \E k, m \in DOMAIN correction_results :
          /\ k < m
          /\ OutOfBounds(violations[attempts[k]])
          /\ Dispatched(violations[attempts[k]])
          /\ correction_results[k].status = "failed"
          /\ correction_results[m].status = "applied"

\* the violation's rule is in the store and has an action type other than
\* the ones the corrector dispatches to a mutation
UnknownType(violation) ==
    /\ HasRule(rules, violation.rule_id)
    /\ LET action == get_rule_by_id(rules, violation.rule_id).correction_action
       IN /\ IsMap(action)
          /\ "type" \in DOMAIN action
          /\ action.type \notin {"apply_formatting", "apply_alignment"}

\* C3: the attempt for a violation whose rule has an unknown action type
\* appends a result with status skipped and leaves the document as it was.
C3_UnknownTypeSkipped ==
    [][(/\ pc = "correcting"
        /\ MoreToCorrect(idx, order)
        /\ UnknownType(violations[order[idx + 1]]))
       => /\ doc' = doc
          /\ Len(correction_results') = Len(correction_results) + 1
          /\ correction_results'[Len(correction_results')].status = "skipped"
          /\ correction_results'[Len(correction_results')].violation_id
                = violations[order[idx + 1]].violation_id]_vars

\* an attempt on an in-bounds paragraph under a rule with an action type that
\* is in no list of known types was skipped, after another attempt had
\* changed the document
C3_Witness ==
    /\ pc = "correcting"
    /\ doc # opened
    /\ \E k \in DOMAIN correction_results :
          /\ k > 1
          /\ violations[attempts[k]].rule_id = "ODD"
          /\ ~OutOfBounds(violations[attempts[k]])
          /\ correction_results[k].status = "skipped"

(***************************************************************************)
(* Properties of validate_document                                         *)
(***************************************************************************)
\* the document the last validate_document call read
ValidatedDoc == IF pc = "revalidated" THEN out[Len(out)] ELSE file

\* C4: the violations a validate_document call returns carry the ids 1..n in
\* list order.
C4_IdsAreOneToN ==
    pc \in {"validated", "revalidated"} =>
        \A i \in DOMAIN violations : violations[i].violation_id = i

\* a second call on the same validator, whose first call left the counter
\* above 0, returned violations although the evaluation of a rule raised
C4_Witness ==
    /\ pc = "revalidated"
    /\ violations # <<>>
    /\ correction_results # <<>>
    /\ RuleBad \in Range(get_enabled_rules(rules))

\* C5 as claimed: after validate, apply_corrections and validate again, no
\* violation is reported for a rule all of whose correction results of the
\* first pass were applied.
C5_RevalidationClean ==
    pc = "revalidated" =>
        \A k \in DOMAIN correction_results :
            LET id == correction_results[k].rule_id
            IN (\A m \in DOMAIN correction_results :
                    correction_results[m].rule_id = id
                        => correction_results[m].status = "applied")
               => \A i \in DOMAIN violations : violations[i].rule_id # id

\* what a violation says, without its id and status
Finding(v) ==
    [rule_id |-> v.rule_id, location |-> v.location,
     expected |-> v.expected, actual |-> v.actual]

\* the violations of one rule evaluated on its own; none if it raises before
\* it records one
OwnFindings(d, rule) ==
    LET vs == validate_rule(d, rule, ResetValidator(0)).violations
    IN [i \in DOMAIN vs |-> Finding(vs[i])]

RuleRaises(d, rule) == validate_rule(d, rule, ResetValidator(0)).raised

RECURSIVE AllFindings(_, _)
AllFindings(d, rl) ==
    IF rl = <<>> THEN <<>>
    ELSE OwnFindings(d, Head(rl)) \o AllFindings(d, Tail(rl))

\* C6: validate_document returns normally, and what it returns are the
\* violations of every enabled rule in rule order, those recorded before a
\* rule raised included, whether or not the evaluation of a rule raised.
C6_FaultIsolation ==
    (pc \in {"validated", "revalidated"}) =>
        /\ ret.kind = "violations"
        /\ [i \in DOMAIN violations |-> Finding(violations[i])]
              = AllFindings(ValidatedDoc, get_enabled_rules(rules))

\* the first enabled rule recorded a violation, the second raised; or the
\* first raised and the second recorded a violation
C6_Witness ==
    /\ pc = "validated"
    /\ violations # <<>>
    /\ LET rl == get_enabled_rules(rules)
       IN /\ Len(rl) = 2
          /\ RuleRaises(file, rl[1])
          /\ OwnFindings(file, rl[2]) # <<>>

(***************************************************************************)
(* DocumentCorrector, structural and complete modes (corrector.py)         *)
(***************************************************************************)
MaxTail == 3         \* paragraphs after the leading 18 of a cover page

CoverStart == 18     \* first paragraph index the cover page template formats

CoverWindow == 30    \* doc.paragraphs[:30]

\* para.text.strip().lower() on the texts of the documents read
StripLower(text) ==
    CASE text = "  FINANCIAL STATEMENTS " -> "financial statements"
      [] text = "Years Ended December 31, 2023" -> "years ended december 31, 2023"
      [] text = "For the Period Ended June 30" -> "for the period ended june 30"
      [] text = "Financial Statements for the Years Ended 2023"
            -> "financial statements for the years ended 2023"
      [] text = "Notes" -> "notes"
      [] OTHER -> text

\* needle in text, for the three needles of the scan
Contains(text, needle) ==
    CASE needle = "financial statements" ->
            text \in {"financial statements",
                      "financial statements for the years ended 2023"}
      [] needle = "years ended" ->
            text \in {"years ended december 31, 2023",
                      "financial statements for the years ended 2023"}
      [] needle = "period ended" -> text = "for the period ended june 30"

NoIndex == 0 - 1     \* title_idx / period_idx is None

RECURSIVE ScanFirst(_, _, _)
ScanFirst(ps, i, st) ==
    IF i >= Len(ps) THEN st
    ELSE LET text == StripLower(ps[i + 1].text)
         IN IF Contains(text, "financial statements")
            THEN ScanFirst(ps, i + 1,
                    IF st.title_idx = NoIndex THEN [st EXCEPT !.title_idx = i] ELSE st)
            ELSE IF Contains(text, "years ended") \/ Contains(text, "period ended")
            THEN ScanFirst(ps, i + 1,
                    IF st.period_idx = NoIndex THEN [st EXCEPT !.period_idx = i] ELSE st)
            ELSE ScanFirst(ps, i + 1, st)

RECURSIVE Scan(_, _, _)
\* the scan of _apply_structural_corrections from paragraph index i on: each
\* match overwrites the index found before
Scan(ps, i, st) ==
    IF i >= Len(ps) THEN st
    ELSE LET text == StripLower(ps[i + 1].text)
         IN IF Contains(text, "financial statements")
            THEN Scan(ps, i + 1, [st EXCEPT !.title_idx = i])
            ELSE IF Contains(text, "years ended") \/ Contains(text, "period ended")
            THEN Scan(ps, i + 1, [st EXCEPT !.period_idx = i])
            ELSE Scan(ps, i + 1, st)

\* a new empty paragraph before the paragraph that precedes index i
InsertBeforeTitle(ps, i) ==
    SubSeq(ps, 1, i - 1) \o <<EmptyPara>> \o SubSeq(ps, i, Len(ps))

\* period_para._p.addprevious(new_p): a new empty paragraph before index i
InsertBefore(ps, i) == SubSeq(ps, 1, i) \o <<EmptyPara>> \o SubSeq(ps, i + 1, Len(ps))

\* _apply_structural_corrections: [doc, rows_inserted]
apply_structural_corrections(d) ==
    LET found == Scan(d.paragraphs, 0, [title_idx |-> NoIndex, period_idx |-> NoIndex])
    IN IF /\ found.title_idx # NoIndex
          /\ found.period_idx # NoIndex
          /\ found.period_idx = found.title_idx + 1
       THEN [doc |-> [d EXCEPT !.paragraphs = InsertBefore(@, found.period_idx)],
             rows_inserted |-> 1]
       ELSE [doc |-> d, rows_inserted |-> 0]

\* the template of _apply_cover_page_formatting for paragraph index i
CoverTemplate(para, i) ==
    CASE i = 18 ->
            [para EXCEPT !.alignment = "CENTER",
                         !.runs = [k \in DOMAIN @ |->
                                     [@[k] EXCEPT !.font_name = "Arial",
                                                  !.font_size = Pt(14),
                                                  !.bold = "True"]]]
      [] i \in {20, 22} ->
            [para EXCEPT !.alignment = "CENTER",
                         !.runs = [k \in DOMAIN @ |-> [@[k] EXCEPT !.bold = "True"]]]
      [] i \in {19, 21, 23, 24} -> [para EXCEPT !.alignment = "CENTER"]
      [] OTHER -> para

\* _apply_cover_page_formatting
apply_cover_page_formatting(d) ==
    [d EXCEPT !.paragraphs =
        [k \in DOMAIN @ |->
            IF k - 1 < CoverWindow /\ k - 1 >= CoverStart
            THEN CoverTemplate(@[k], k - 1) ELSE @[k]]]

\* docx.shared.Inches, of a number of hundredths of an inch
Inches100(h) == h * 9144

\* expected_widths
ExpectedWidths == <<Inches100(472), Inches100(47), Inches100(91), Inches100(91)>>

\* the runs of the cell paragraphs of a cell
CellRuns(cell) ==
    UNION {{<<p, r>> : r \in DOMAIN cell.paragraphs[p].runs} : p \in DOMAIN cell.paragraphs}

\* the bold loops of _apply_table_formatting on one row
BoldRow(row) ==
    [row EXCEPT !.cells =
        [c \in DOMAIN @ |->
            CASE c - 1 = 2 ->
                    [@[c] EXCEPT !.paragraphs =
                        [p \in DOMAIN @ |-> [@[p] EXCEPT !.runs =
                            [r \in DOMAIN @ |-> [@[r] EXCEPT !.bold = "True"]]]]]
              [] c - 1 = 3 ->
                    [@[c] EXCEPT !.paragraphs =
                        [p \in DOMAIN @ |-> [@[p] EXCEPT !.runs =
                            [r \in DOMAIN @ |->
                                IF @[r].bold = "True"
                                THEN [@[r] EXCEPT !.bold = None] ELSE @[r]]]]]
              [] OTHER -> @[c]]]

\* a width as the document keeps it: the setter writes the length in twips,
\* int(round(emu / 635.0)), and the getter reads the twips back as EMU
StoredWidth(emu) == ((2 * emu + 635) \div 1270) * 635

\* the width loops of _apply_table_formatting on one row
WidthRow(row) ==
    [row EXCEPT !.cells =
        [c \in DOMAIN @ |->
            IF c <= Len(ExpectedWidths)
            THEN [@[c] EXCEPT !.width = StoredWidth(ExpectedWidths[c])] ELSE @[c]]]

\* how many runs of the cell at column index col of the rows have bold = b
\* (want = TRUE) or bold # b (want = FALSE)
CountRuns(rows, col, b, want) ==
    Cardinality(
        {<<i, q>> \in UNION {{<<i, q>> : q \in CellRuns(rows[i].cells[col + 1])} :
                                i \in {i \in DOMAIN rows : col < Len(rows[i].cells)}} :
            (rows[i].cells[col + 1].paragraphs[q[1]].runs[q[2]].bold = b) = want})

\* _apply_table_formatting: [doc, stats]
apply_table_formatting(d) ==
    IF d.tables = <<>>
    THEN [doc |-> d,
          stats |-> [columns_fixed |-> 0, bold_applied |-> 0, bold_removed |-> 0]]
    ELSE LET table == d.tables[1]
             columns == [c \in DOMAIN table.columns |->
                            IF c <= Len(ExpectedWidths)
                            THEN StoredWidth(ExpectedWidths[c]) ELSE table.columns[c]]
             rows == [i \in DOMAIN table.rows |-> BoldRow(WidthRow(table.rows[i]))]
         IN [doc |-> [d EXCEPT !.tables[1] = [columns |-> columns, rows |-> rows]],
             stats |-> [columns_fixed |-> Min(Len(ExpectedWidths), Len(table.columns)),
                        bold_applied |-> CountRuns(table.rows, 2, "True", FALSE),
                        bold_removed |-> CountRuns(table.rows, 3, "True", TRUE)]]

\* the steps of apply_structural_corrections and apply_complete_corrections
StructBegin(mode) ==
    /\ pc = "idle"
    /\ out' = <<>>
    /\ job' = [mode |-> mode]
    /\ IF io.open_ok
       THEN /\ pc' = "opened"
            /\ doc' = file
            /\ opened' = file
            /\ ret' = [kind |-> "running"]
       ELSE /\ pc' = "failed"
            /\ ret' = [kind |-> "dict", status |-> "failed"]
            /\ UNCHANGED <<doc, opened>>
    /\ UNCHANGED <<file, io, StoreVars, violations, violation_counter, order, idx,
                   correction_results, attempts>>

\* apply_structural_corrections called again, on the document the call before
\* has saved
StructAgain ==
    /\ pc = "done"
    /\ job.mode = "structural"
    /\ out' = <<>>
    /\ job' = [mode |-> "structural"]
    /\ pc' = "opened"
    /\ doc' = out[Len(out)]
    /\ opened' = out[Len(out)]
    /\ ret' = [kind |-> "running"]
    /\ UNCHANGED <<file, io, StoreVars, violations, violation_counter, order, idx,
                   correction_results, attempts>>

StructInsert ==
    /\ pc = "opened"
    /\ LET r == apply_structural_corrections(doc)
       IN /\ doc' = r.doc
          /\ job' = [mode |-> job.mode, rows_inserted |-> r.rows_inserted]
    /\ pc' = "structured"
    /\ UNCHANGED <<file, io, out, opened, ret, StoreVars, violations, violation_counter,
                   order, idx, correction_results, attempts>>

StructCoverPage ==
    /\ pc = "structured"
    /\ doc' = apply_cover_page_formatting(doc)
    /\ pc' = "formatted"
    /\ UNCHANGED <<file, io, out, opened, job, ret, StoreVars, violations,
                   violation_counter, order, idx, correction_results, attempts>>

StructTable ==
    /\ pc = "formatted"
    /\ job.mode = "complete"
    /\ LET r == apply_table_formatting(doc)
       IN /\ doc' = r.doc
          /\ job' = [mode |-> job.mode, rows_inserted |-> job.rows_inserted,
                     table_stats |-> r.stats]
    /\ pc' = "tabled"
    /\ UNCHANGED <<file, io, out, opened, ret, StoreVars, violations, violation_counter,
                   order, idx, correction_results, attempts>>

StructSave ==
    /\ \/ pc = "formatted" /\ job.mode = "structural"
       \/ pc = "tabled"
    /\ IF io.save_ok
       THEN /\ out' = save(out, doc)
            /\ pc' = "done"
            /\ ret' = [kind |-> "dict", status |-> "success",
                       rows_inserted |-> job.rows_inserted,
                       total_paragraphs |-> Len(doc.paragraphs)]
       ELSE /\ out' = out
            /\ pc' = "failed"
            /\ ret' = [kind |-> "dict", status |-> "failed"]
    /\ UNCHANGED <<file, io, doc, opened, job, StoreVars, violations, violation_counter,
                   order, idx, correction_results, attempts>>

(***************************************************************************)
(* The three correction modes on cover-page documents                      *)
(***************************************************************************)
Texts ==
    {"Notes", "  FINANCIAL STATEMENTS ", "Years Ended December 31, 2023",
     "For the Period Ended June 30", "Financial Statements for the Years Ended 2023"}

TextPara(text) == Paragraph(text, None, <<Run(None, 0, None)>>)

\* the leading paragraphs of a cover page
Lead == [k \in 1..CoverStart |-> TextPara("Notes")]

Cell(text, bold) ==
    [width |-> 0, paragraphs |-> <<[runs |-> <<[text |-> text, bold |-> bold]>>]>>]

BalanceSheet ==
    [columns |-> <<0, 0, 831850, 1000125>>,
     rows |-> <<[height |-> 133350,
                 cells |-> <<Cell("Assets", None), Cell("Note", None),
                             Cell("2023", None), Cell("2022", "True")>>],
                [height |-> 439420,
                 cells |-> <<Cell("Cash", None), Cell("4", None),
                             Cell("$100", "False"), Cell("$90", None)>>]>>]

\* a second table: a header row without a height, a row of 0.5 in (1.27 cm),
\* whose last cell has two paragraphs with a non-bold amount each, and a row
\* of 0.43 cm whose amount is bold; lengths are whole twips, as a document
\* stores them
Schedule ==
    [columns |-> <<0, 1000125>>,
     rows |-> <<[height |-> 0,
                 cells |-> <<Cell("Assets", None), Cell("2023", None)>>],
                [height |-> 457200,
                 cells |-> <<Cell("Cash", None),
                             [width |-> 0,
                              paragraphs |->
                                <<[runs |-> <<[text |-> "$100", bold |-> "False"],
                                              [text |-> "4", bold |-> None]>>],
                                  [runs |-> <<[text |-> "$90", bold |-> None]>>]>>]>>],
                [height |-> 154940,
                 cells |-> <<Cell("Note", None),
                             [width |-> 0,
                              paragraphs |->
                                <<[runs |-> <<[text |-> "Cash", bold |-> None],
                                              [text |-> "4", bold |-> "True"]>>]>>]>>]>>]

StructDocs ==
    {[paragraphs |-> lead \o tail, tables |-> tables] :
        lead \in {<<>>, Lead},
        tail \in SeqsUpTo({TextPara(t) : t \in Texts}, MaxTail),
        tables \in {<<>>, <<BalanceSheet>>, <<BalanceSheet, Schedule>>}}

\* the rule on the current period column of the balance sheet
RuleTableBold ==
    [rule_id |-> "BALANCE_SHEET_CURRENT_PERIOD_BOLD",
     category |-> "table_formatting", priority |-> 2,
     validation |-> [bold |-> "True"],
     correction_action |->
        [type |-> "apply_bold_to_current_period", properties |-> [bold |-> "True"]]]

RuleRowHeight ==
    [rule_id |-> "TABLE_ROW_HEIGHT", category |-> "table_structure",
     validation |-> [row_height |-> 122],
     correction_action |-> [type |-> "apply_table_row_height", properties |-> <<>>]]

RuleColumnWidth ==
    [rule_id |-> "TABLE_VALUE_COLUMN_WIDTH", category |-> "table_structure",
     validation |-> <<>>,
     correction_action |-> [type |-> "apply_column_width", properties |-> <<>>]]

StructStore ==
    RuleSource(<<RuleCompany, RuleTableBold, RuleRowHeight, RuleColumnWidth>>)

InitStruct ==
    /\ pc \in {"idle", "validated"}
    /\ file \in StructDocs
    /\ InitStore(StructStore)
    /\ violations = <<>>
    /\ InitIdle
    /\ io \in [open_ok : BOOLEAN, save_ok : BOOLEAN]

NextStruct ==
    \/ \E mode \in {"structural", "complete"} : StructBegin(mode)
    \/ StructInsert
    \/ StructCoverPage
    \/ StructTable
    \/ StructSave
    \/ StructAgain
    \/ ValidateDocument
    \/ ApplyCorrectionsBegin
    \/ ApplyCorrectionStep
    \/ ApplyCorrectionsSave

SpecStruct == InitStruct /\ [][NextStruct]_vars

\* a paragraph contains the title text / the period text
TitleMatch(para) == Contains(StripLower(para.text), "financial statements")

PeriodMatch(para) ==
    \/ Contains(StripLower(para.text), "years ended")
    \/ Contains(StripLower(para.text), "period ended")

\* the positions of a title paragraph immediately followed by a period paragraph
AdjacentPairs(ps) ==
    {i \in 1..(Len(ps) - 1) : TitleMatch(ps[i]) /\ PeriodMatch(ps[i + 1])}

\* the position of the last paragraph of ps that is in S, 0 if none
LastOf(S) == IF S = {} THEN 0 ELSE CHOOSE i \in S : \A j \in S : j <= i

LastTitle(ps) == LastOf({i \in DOMAIN ps : TitleMatch(ps[i])})

LastPeriod(ps) == LastOf({i \in DOMAIN ps : PeriodMatch(ps[i]) /\ ~TitleMatch(ps[i])})

NothingInserted == job.rows_inserted = 0 /\ doc = opened

\* the document after every correction step of the running mode
FinalDoc ==
    LET structural == apply_cover_page_formatting(apply_structural_corrections(opened).doc)
    IN CASE job.mode = "rules" -> DocAfter(opened, order, Len(order))
         [] job.mode = "structural" -> structural
         [] job.mode = "complete" -> apply_table_formatting(structural).doc

\* C7: in each correction mode nothing is saved while correction steps are
\* left, and a run that completed has saved exactly once, the document as it
\* is after the last correction step.
C7_SavedOnceAfterLastStep ==
    /\ pc \in {"correcting", "opened", "structured", "formatted", "tabled"}
          => out = <<>>
    /\ pc \in {"corrected", "done"} => out = <<FinalDoc>>
    /\ pc = "revalidated" => Len(out) = 1

\* a complete run that inserted a row and made table runs bold has saved
C7_Witness ==
    /\ pc = "done"
    /\ job.mode = "complete"
    /\ job.rows_inserted = 1
    /\ job.table_stats.bold_applied > 0
    /\ out = <<doc>>
    /\ doc # opened

\* C8 as claimed: a title paragraph immediately followed by a period paragraph
\* gets exactly one empty paragraph between the two, reported as
\* rows_inserted = 1; without such a pair nothing is inserted.
C8_AdjacentPairGetsBlankRow ==
    pc = "structured" =>
        IF AdjacentPairs(opened.paragraphs) # {}
        THEN /\ job.rows_inserted = 1
             /\ \E i \in AdjacentPairs(opened.paragraphs) :
                    doc.paragraphs = InsertBefore(opened.paragraphs, i)
        ELSE NothingInserted

\* C8 amended: exactly one empty paragraph is inserted, after the last title
\* paragraph, and rows_inserted = 1 is reported, exactly when the last title
\* paragraph is immediately followed by the last paragraph that has the
\* period text and not the title text; otherwise, and so whenever no title
\* paragraph is immediately followed by a period paragraph, nothing is
\* inserted and rows_inserted = 0.
C8_LastPairGetsBlankRow ==
    pc = "structured" =>
        LET ps == opened.paragraphs
        IN /\ IF LastTitle(ps) # 0 /\ LastPeriod(ps) = LastTitle(ps) + 1
              THEN /\ job.rows_inserted = 1
                   /\ doc.paragraphs = InsertBefore(ps, LastTitle(ps))
                   /\ doc.tables = opened.tables
              ELSE NothingInserted
           /\ AdjacentPairs(ps) = {} => NothingInserted

\* a row was inserted in a document with more than one title paragraph
C8_Witness ==
    /\ pc = "structured"
    /\ job.rows_inserted = 1
    /\ Len(doc.paragraphs) = Len(opened.paragraphs) + 1
    /\ Cardinality({i \in DOMAIN opened.paragraphs :
                        TitleMatch(opened.paragraphs[i])}) > 1

(***************************************************************************)
(* Rule store: load, reload, enable, disable (rule_engine.py)              *)
(***************************************************************************)
MaxTime == 3

\* RuleEngine.cache_ttl, in clock ticks
CacheTtl == 2

\* the fields _validate_rules_structure requires of every rule
RequiredRuleFields == {"rule_id", "category", "validation", "correction_action"}

validate_rules_structure(rs) ==
    /\ "version" \in DOMAIN rs
    /\ "rules" \in DOMAIN rs
    /\ \A i \in DOMAIN RulesList(rs) : RequiredRuleFields \subseteq DOMAIN RulesList(rs)[i]

\* the engine before its first load
NewEngine ==
    [rules |-> <<>>, rules_by_category |-> <<>>, indexed |-> <<>>,
     aliased |-> FALSE, cache_timestamp |-> 0]

TheEngine ==
    [rules |-> rules, rules_by_category |-> rules_by_category,
     indexed |-> indexed, aliased |-> aliased,
     cache_timestamp |-> cache_timestamp]

\* load_rules of file f at time t: the engine afterwards and the value returned
load_rules(eng, f, t) ==
    IF ~f.exists THEN [eng |-> eng, ret |-> FALSE]
    ELSE IF ~f.json THEN [eng |-> eng, ret |-> FALSE]
    ELSE LET assigned == [eng EXCEPT !.rules = f.data, !.aliased = FALSE]
         IN IF ~validate_rules_structure(f.data)
            THEN [eng |-> assigned, ret |-> FALSE]
            ELSE [eng |-> [rules |-> f.data,
                           rules_by_category |->
                               organize_rules_by_category(RulesList(f.data)),
                           indexed |-> RulesList(f.data),
                           aliased |-> TRUE,
                           cache_timestamp |-> t],
                  ret |-> TRUE]

is_cache_valid(eng, t) ==
    IF eng.cache_timestamp = 0 THEN FALSE
    ELSE t - eng.cache_timestamp < CacheTtl

\* get_all_rules: the engine afterwards and whether load_rules was called;
\* the value returned is the rule list of the engine afterwards
get_all_rules(eng, f, force_reload, t) ==
    IF (force_reload \/ ~is_cache_valid(eng, t)) /\ "exists" \in DOMAIN f
    THEN [eng |-> load_rules(eng, f, t).eng, load_rules_called |-> TRUE]
    ELSE [eng |-> eng, load_rules_called |-> FALSE]

\* self.rules_by_category.get(category, [])
get_rules_by_category(eng, category) ==
    IF category \in DOMAIN eng.rules_by_category
    THEN [i \in DOMAIN eng.rules_by_category[category] |->
              eng.indexed[eng.rules_by_category[category][i]]]
    ELSE <<>>

\* rule['enabled'] = flag
WithEnabled(rule, flag) ==
    [k \in DOMAIN rule \cup {"enabled"} |-> IF k = "enabled" THEN flag ELSE rule[k]]

\* every rule gets the flag, whatever its id
set_enabled_all(eng, rule_id, flag) ==
    [eng |-> [eng EXCEPT
                !.rules = [k \in DOMAIN eng.rules |->
                             IF k = "rules"
                             THEN [i \in DOMAIN eng.rules.rules |->
                                      WithEnabled(eng.rules.rules[i], flag)]
                             ELSE eng.rules[k]]],
     ret |-> TRUE]

\* enable_rule / disable_rule: the rule object found by get_rule_by_id is
\* mutated in place, so the index sees the change while it holds that object
set_enabled(eng, rule_id, flag) ==
    LET p == FirstWithId(RulesList(eng.rules), rule_id, 1)
    IN IF ~HasRule(eng.rules, rule_id) THEN [eng |-> eng, ret |-> FALSE]
       ELSE [eng |-> [eng EXCEPT
                        !.rules = [eng.rules EXCEPT
                                     !.rules[p] = WithEnabled(@, flag)],
                        !.indexed = IF eng.aliased
                                    THEN [eng.indexed EXCEPT
                                            ![p] = WithEnabled(@, flag)]
                                    ELSE eng.indexed],
             ret |-> TRUE]

InstallEngine(eng) ==
    /\ rules' = eng.rules
    /\ rules_by_category' = eng.rules_by_category
    /\ indexed' = eng.indexed
    /\ aliased' = eng.aliased
    /\ cache_timestamp' = eng.cache_timestamp

DocVars == <<file, io, violations, violation_counter, CorrectorVars>>

LoadRules(f) ==
    /\ pc = "store"
    /\ LET r == load_rules(TheEngine, f, now)
       IN /\ InstallEngine(r.eng)
          /\ ret' = [kind |-> "load_rules", value |-> r.ret]
    /\ UNCHANGED <<pc, now, rules_file, DocVars>>

GetAllRules(force_reload) ==
    /\ pc = "store"
    /\ LET r == get_all_rules(TheEngine, rules_file, force_reload, now)
       IN /\ InstallEngine(r.eng)
          /\ ret' = [kind |-> "get_all_rules",
                     value |-> RulesList(r.eng.rules),
                     load_rules_called |-> r.load_rules_called]
    /\ UNCHANGED <<pc, now, rules_file, DocVars>>

EnableRule(rule_id) ==
    /\ pc = "store"
    /\ LET r == set_enabled(TheEngine, rule_id, TRUE)
       IN /\ InstallEngine(r.eng)
          /\ ret' = [kind |-> "enable_rule", rule_id |-> rule_id, value |-> r.ret]
    /\ UNCHANGED <<pc, now, rules_file, DocVars>>

DisableRule(rule_id) ==
    /\ pc = "store"
    /\ LET r == set_enabled(TheEngine, rule_id, FALSE)
       IN /\ InstallEngine(r.eng)
          /\ ret' = [kind |-> "disable_rule", rule_id |-> rule_id, value |-> r.ret]
    /\ UNCHANGED <<pc, now, rules_file, DocVars>>

\* the clock advances
Tick ==
    /\ pc = "store"
    /\ now < MaxTime
    /\ now' = now + 1
    /\ UNCHANGED <<pc, rules, rules_by_category, indexed, aliased,
                   cache_timestamp, rules_file, ret, DocVars>>

\* a rule without a category
RuleNoCategory ==
    [rule_id |-> "NOCAT",
     validation |-> [alignment |-> "center"],
     correction_action |->
        [type |-> "apply_alignment", properties |-> [alignment |-> "center"]]]

\* a path that names no file, and a file that is not JSON
MissingFile == [exists |-> FALSE]

NotJson == [exists |-> TRUE, json |-> FALSE]

\* the engine was constructed without a rules file
NoRulesFile == [given |-> FALSE]

StoreFiles ==
    { RulesFile(RuleSource(<<RuleAlign, RuleOff>>)),
      RulesFile(RuleSource(<<RuleCompany>>)),
      RulesFile([rules |-> <<RuleCompany, RuleOff>>]),
      RulesFile([version |-> "1.0"]),
      RulesFile(RuleSource(<<RuleAlign, RuleNoCategory>>)),
      MissingFile,
      NotJson }

StoreIds == {"ALIGN", "COMPANY", "OFF", "GONE"}

\* RuleEngine(rules_file): the constructor loads the file when one is given
InitStoreSpec ==
    /\ pc = "store"
    /\ file = NoDoc
    /\ violations = <<>>
    /\ InitIdle
    /\ io = IoOk
    /\ now = 1
    /\ rules_file \in StoreFiles \cup {NoRulesFile}
    /\ LET eng == IF "exists" \in DOMAIN rules_file
                  THEN load_rules(NewEngine, rules_file, 1).eng
                  ELSE NewEngine
       IN /\ rules = eng.rules
          /\ rules_by_category = eng.rules_by_category
          /\ indexed = eng.indexed
          /\ aliased = eng.aliased
          /\ cache_timestamp = eng.cache_timestamp

NextStore ==
    \/ \E f \in StoreFiles : LoadRules(f)
    \/ \E force_reload \in BOOLEAN : GetAllRules(force_reload)
    \/ \E rule_id \in StoreIds : EnableRule(rule_id)
    \/ \E rule_id \in StoreIds : DisableRule(rule_id)
    \/ Tick

SpecStore == InitStoreSpec /\ [][NextStore]_vars

\* the category index as the getters show it
CategoryIndex(eng) ==
    [c \in DOMAIN eng.rules_by_category |-> get_rules_by_category(eng, c)]

\* the source of a load is one that load_rules has to reject
Malformed(f) == f.exists /\ f.json /\ ~validate_rules_structure(f.data)

\* the rules of rl whose category is c, in the order of rl
RECURSIVE OfCategory(_, _)
OfCategory(rl, c) ==
    IF rl = <<>> THEN <<>>
    ELSE IF "category" \in DOMAIN Head(rl) /\ Head(rl).category = c
         THEN <<Head(rl)>> \o OfCategory(Tail(rl), c)
         ELSE OfCategory(Tail(rl), c)

Categories == {"cover_page", "table_formatting", "unknown"}

\* C9: a load whose source lacks version or rules, or has a rule lacking a
\* required field, returns False and leaves the rule set, the category index
\* and the load timestamp as they were before the call.
C9_RejectedLoadKeepsStore ==
    [][\A f \in StoreFiles :
          (Malformed(f) /\ LoadRules(f)) =>
              /\ ret'.value = FALSE
              /\ rules' = rules
              /\ CategoryIndex(TheEngine)' = CategoryIndex(TheEngine)
              /\ cache_timestamp' = cache_timestamp]_vars

\* C10: for every category c, get_rules_by_category(c) is the list of the
\* rules of the current rule set whose category is c, in rule-set order, so
\* that every rule of the rule set is in the index exactly once.
C10_IndexMatchesRuleSet ==
    pc = "store" =>
        /\ \A c \in Categories :
              get_rules_by_category(TheEngine, c) = OfCategory(RulesList(rules), c)
        /\ \A i \in DOMAIN RulesList(rules) :
              /\ "category" \in DOMAIN RulesList(rules)[i]
              /\ RulesList(rules)[i].category \in Categories

EngineVars == <<rules, rules_by_category, indexed, aliased, cache_timestamp>>

\* C11: the cache is valid exactly when a load has succeeded and less than
\* the TTL has passed since the last one; get_all_rules calls load_rules
\* exactly when force_reload is set or the cache is not valid, and otherwise
\* leaves the rule set, the index and the load timestamp as they are.
C11_ReloadWhenForcedOrExpired ==
    [][/\ is_cache_valid(TheEngine, now) <=>
              (cache_timestamp # 0 /\ now - cache_timestamp < CacheTtl)
       /\ \A force_reload \in BOOLEAN :
              GetAllRules(force_reload) =>
                  /\ ret'.load_rules_called <=>
                         (force_reload \/ ~is_cache_valid(TheEngine, now))
                  /\ ~ret'.load_rules_called => UNCHANGED EngineVars]_vars

\* the position of the first rule of rl whose rule_id is id, 0 if none
MatchPos(rl, id) ==
    LET S == {i \in DOMAIN rl : "rule_id" \in DOMAIN rl[i] /\ rl[i].rule_id = id}
    IN IF S = {} THEN 0 ELSE CHOOSE i \in S : \A j \in S : i <= j

\* rule new is rule old with enabled = flag and every other field as it was
OnlyEnabledSet(old, new, flag) ==
    /\ DOMAIN new = DOMAIN old \cup {"enabled"}
    /\ new.enabled = flag
    /\ \A k \in DOMAIN old \ {"enabled"} : new[k] = old[k]

\* C12: enable_rule / disable_rule of an id in the store returns True, sets
\* enabled of the matching rule to True / False and changes no other field
\* and no other rule; of an id not in the store it returns False and changes
\* nothing.
C12_EnableDisableFrame ==
    [][\A rule_id \in StoreIds, flag \in BOOLEAN :
          (IF flag THEN EnableRule(rule_id) ELSE DisableRule(rule_id)) =>
              LET old == RulesList(rules)
                  new == RulesList(rules')
                  p == MatchPos(old, rule_id)
              IN IF p # 0
                 THEN /\ ret'.value = TRUE
                      /\ DOMAIN new = DOMAIN old
                      /\ OnlyEnabledSet(old[p], new[p], flag)
                      /\ \A i \in DOMAIN old \ {p} : new[i] = old[i]
                      /\ DOMAIN rules' = DOMAIN rules
                      /\ \A k \in DOMAIN rules \ {"rules"} : rules'[k] = rules[k]
                      /\ rules_by_category' = rules_by_category
                      /\ cache_timestamp' = cache_timestamp
                 ELSE /\ ret'.value = FALSE
                      /\ UNCHANGED EngineVars]_vars

\* ALIGN, which has no enabled field in its file, was disabled next to OFF
C12_Witness ==
    /\ ret = [kind |-> "disable_rule", rule_id |-> "ALIGN", value |-> TRUE]
    /\ Len(RulesList(rules)) = 2
    /\ RulesList(rules)[1].rule_id = "ALIGN"
    /\ RulesList(rules)[1].enabled = FALSE
    /\ RulesList(rules)[2] = RuleOff

\* the paragraph indices a row_from_top location resolves to in a document
\* of n paragraphs: 1-based rows as 0-based indices, clipped to the document
ResolvedLocations(rule, n) ==
    LET location == Get(rule, "location", <<>>)
        r == location.row_from_top
    IN IF "row_from_top" \notin DOMAIN location THEN {}
       ELSE CASE r.kind \in {"int", "digits"} -> {r.n - 1} \cap (0..(n - 1))
              [] r.kind = "range" -> (r.start - 1)..(Min(r.end, n) - 1)
              [] r.kind = "all" -> 0..(Min(30, n) - 1)
              [] OTHER -> {}

ExpectsCenter(rule) ==
    /\ Get(rule, "category", None) = "cover_page"
    /\ "alignment" \in DOMAIN Get(rule, "validation", <<>>)
    /\ Lower(rule.validation.alignment) = "center"

\* C13: for every enabled paragraph rule that expects alignment center and
\* every paragraph of its resolved locations whose alignment is unset, the
\* violations returned hold one of that rule for that paragraph, with actual
\* alignment 'left'.
C13_UnsetAlignmentIsLeft ==
    pc \in {"validated", "revalidated"} =>
        \A rule \in Range(get_enabled_rules(rules)) :
            ExpectsCenter(rule) =>
                \A i \in ResolvedLocations(rule, Len(ValidatedDoc.paragraphs)) :
                    ValidatedDoc.paragraphs[i + 1].alignment = None =>
                        \E k \in DOMAIN violations :
                            /\ violations[k].rule_id = rule.rule_id
                            /\ violations[k].location.paragraph = i
                            /\ violations[k].expected.alignment = "center"
                            /\ violations[k].actual.alignment = "left"

\* the second paragraph has runs and no alignment and is reported by ALIGN
C13_Witness ==
    /\ pc = "validated"
    /\ Len(file.paragraphs) = 2
    /\ file.paragraphs[2].alignment = None
    /\ file.paragraphs[2].runs # <<>>
    /\ \E k \in DOMAIN violations :
          /\ violations[k].rule_id = "ALIGN"
          /\ violations[k].location.paragraph = 1
          /\ violations[k].actual = [alignment |-> "left"]

\* the rule of violation p is in the store and declares no priority
NoPriority(p) ==
    /\ HasRule(rules, violations[p].rule_id)
    /\ "priority" \notin DOMAIN get_rule_by_id(rules, violations[p].rule_id)

\* the rule of violation p is in the store and declares a priority below 999
PriorityBelowDefault(p) ==
    /\ HasRule(rules, violations[p].rule_id)
    /\ "priority" \in DOMAIN get_rule_by_id(rules, violations[p].rule_id)
    /\ get_rule_by_id(rules, violations[p].rule_id).priority < 999

\* C14: when a violation whose rule declares no priority is attempted, every
\* violation whose rule declares a priority below 999 has been attempted
\* before it.
C14_NoPriorityIsLast ==
    pc \in {"correcting", "corrected"} =>
        \A i \in DOMAIN attempts :
            NoPriority(attempts[i]) =>
                \A q \in DOMAIN violations :
                    PriorityBelowDefault(q) =>
                        \E j \in 1..(i - 1) : attempts[j] = q

\* a violation of BLANK (no priority) came first in the input and was
\* attempted after one of COMPANY (priority 5)
C14_Witness ==
    /\ pc = "corrected"
    /\ Len(violations) >= 2
    /\ violations[1].rule_id = "BLANK"
    /\ violations[2].rule_id = "COMPANY"
    /\ attempts[Len(attempts)] = 1

\* the correction action types the rule source declares
DeclaredTypes ==
    {"apply_formatting", "apply_alignment", "apply_cover_page_company_formatting",
     "ensure_blank_row", "apply_table_row_height", "apply_column_width",
     "apply_bold_to_current_period"}

\* the action type of the violation's rule, None if it has none
ActionType(violation) ==
    IF ~HasRule(rules, violation.rule_id) THEN None
    ELSE LET action == Get(get_rule_by_id(rules, violation.rule_id),
                           "correction_action", <<>>)
         IN IF IsMap(action) THEN Get(action, "type", None) ELSE None

\* the violation's location names a paragraph, row, column or cell of d
InBounds(violation, d) ==
    LET loc == violation.location
    IN IF "paragraph" \in DOMAIN loc
       THEN loc.paragraph >= 0 /\ loc.paragraph < Len(d.paragraphs)
       ELSE /\ "table" \in DOMAIN loc
            /\ loc.table < Len(d.tables)
            /\ "row" \in DOMAIN loc => loc.row < Len(d.tables[loc.table + 1].rows)
            /\ "column" \in DOMAIN loc =>
                    loc.column < Len(d.tables[loc.table + 1].columns)

\* every run of every paragraph of the cell is bold
CellIsBold(cell) ==
    \A q \in CellRuns(cell) : cell.paragraphs[q[1]].runs[q[2]].bold = "True"

\* C15 as claimed: no attempt for an in-bounds violation whose rule has a
\* declared action type is reported skipped, and after the run the cell of a
\* violation whose rule has type apply_bold_to_current_period is bold in all
\* its runs.
C15_DeclaredTypesDispatched ==
    job.mode = "rules" =>
        /\ \A k \in DOMAIN correction_results :
              LET v == violations[attempts[k]]
              IN (pc \in {"correcting", "corrected"}
                    /\ ActionType(v) \in DeclaredTypes /\ InBounds(v, doc))
                 => correction_results[k].status # "skipped"
        /\ pc = "corrected" =>
              \A i \in DOMAIN violations :
                  LET loc == violations[i].location
                  IN (/\ ActionType(violations[i]) = "apply_bold_to_current_period"
                      /\ {"table", "row", "column"} \subseteq DOMAIN loc
                      /\ InBounds(violations[i], doc))
                     => CellIsBold(doc.tables[loc.table + 1].rows[loc.row + 1]
                                      .cells[loc.column + 1])

\* C16 as claimed: a correction call in which opening or saving the document
\* failed has raised to its caller, not returned a result, and has written
\* no output document.
C16_IoFailureIsRaised ==
    (pc = "failed" /\ job.mode \in {"rules", "structural", "complete"}) =>
        /\ ret.kind = "raise"
        /\ out = <<>>

\* C17: apply_corrections attempts every input violation exactly once: the
\* results are one per attempt, each with the violation_id and rule_id of its
\* violation and a status of applied, failed or skipped; when the call
\* returns, every violation has its result and the applied, failed and
\* skipped counts of get_correction_stats add up to the number of violations.
C17_OneResultPerViolation ==
    (pc \in {"correcting", "corrected"} /\ job.mode = "rules") =>
        /\ Len(correction_results) = Len(attempts)
        /\ \A k, m \in DOMAIN attempts : attempts[k] = attempts[m] => k = m
        /\ \A k \in DOMAIN correction_results :
              /\ correction_results[k].violation_id = violations[attempts[k]].violation_id
              /\ correction_results[k].rule_id = violations[attempts[k]].rule_id
              /\ correction_results[k].status \in {"applied", "failed", "skipped"}
        /\ pc = "corrected" =>
              LET stats == get_correction_stats(correction_results)
              IN /\ Range(attempts) = DOMAIN violations
                 /\ stats.total = Len(violations)
                 /\ stats.applied + stats.failed + stats.skipped = Len(violations)

\* three violations were attempted: one applied, one failed, one skipped
C17_Witness ==
    /\ pc = "corrected"
    /\ get_correction_stats(correction_results)
          = [total |-> 3, applied |-> 1, failed |-> 1, skipped |-> 1]

(***************************************************************************)
(* StyleGuideAutomation.correct_document, rule-driven mode (main.py)       *)
(***************************************************************************)
\* Step 1: validate
CorrectDocumentValidate ==
    /\ pc = "idle"
    /\ ValidateDocument

\* Step 2: apply_corrections, entered when there are violations
CorrectDocumentCorrect ==
    /\ violations # <<>>
    /\ ApplyCorrectionsBegin

\* _generate_next_steps
generate_next_steps(failed_corrections) ==
    IF failed_corrections # {}
    THEN <<"Review corrected document", "Manually fix failed corrections">>
    ELSE <<"Review corrected document">>

\* _generate_complete_report
generate_complete_report(vs, results, all_results) ==
    LET stats == get_correction_stats(all_results)
        failed_corrections == {k \in DOMAIN results : results[k].status = "failed"}
    IN [kind |-> "report",
        status |-> IF failed_corrections = {} THEN "completed" ELSE "partial",
        total_violations |-> Len(vs),
        corrections_applied |-> stats.applied,
        corrections_failed |-> stats.failed,
        corrections_skipped |-> stats.skipped,
        next_steps |-> generate_next_steps(failed_corrections)]

\* the report, after the corrections or when validation found nothing
CorrectDocumentReport ==
    /\ \/ pc = "validated" /\ violations = <<>>
       \/ pc = "corrected"
    /\ pc' = "reported"
    /\ ret' = generate_complete_report(violations,
                  IF pc = "corrected" THEN correction_results ELSE <<>>,
                  correction_results)
    /\ UNCHANGED <<file, io, StoreVars, CorrectorVars, violations, violation_counter>>

NextMain ==
    \/ CorrectDocumentValidate
    \/ CorrectDocumentCorrect
    \/ ApplyCorrectionStep
    \/ ApplyCorrectionsSave
    \/ CorrectDocumentReport

SpecMain == Init /\ [][NextMain]_vars

\* C18 as claimed: a rule-driven correct_document call that returned a report
\* has run the corrector after the validator and has saved the output
\* document exactly once, also when validation found no violation.
C18_ReportMeansSaved ==
    pc = "reported" =>
        /\ ret.kind = "report"
        /\ job.mode = "rules"
        /\ Len(out) = 1

\* len(text.strip()) == 0, for the paragraph texts of the documents
IsBlankText(text) == text = ""

\* the violations hold one of the rule at paragraph index i
Reported(rule, i) ==
    \E k \in DOMAIN violations :
        /\ violations[k].rule_id = rule.rule_id
        /\ "paragraph" \in DOMAIN violations[k].location
        /\ violations[k].location.paragraph = i

IsParagraphRule(rule) == Get(rule, "category", None) = "cover_page"

\* C19 as claimed: under a paragraph rule whose validation map has is_blank,
\* a blank paragraph expected blank is not checked further and not reported,
\* and a paragraph whose blankness differs from the expected one is reported.
C19_IsBlankChecked ==
    pc = "validated" =>
        \A rule \in Range(get_enabled_rules(rules)) :
            (IsParagraphRule(rule) /\ "is_blank" \in DOMAIN Get(rule, "validation", <<>>)) =>
                \A i \in ResolvedLocations(rule, Len(file.paragraphs)) :
                    LET blank == IsBlankText(file.paragraphs[i + 1].text)
                    IN /\ (rule.validation.is_blank /\ blank) => ~Reported(rule, i)
                       /\ (rule.validation.is_blank # blank) => Reported(rule, i)

\* the alignment check of the rule fails on the paragraph
AlignmentMismatch(rule, para) ==
    /\ "alignment" \in DOMAIN Get(rule, "validation", <<>>)
    /\ alignment_str_to_int(Lower(rule.validation.alignment))
          # get_alignment_as_int(para.alignment)

ExpectsBold(rule) ==
    /\ "bold" \in DOMAIN Get(rule, "validation", <<>>)
    /\ rule.validation.bold = "True"

\* the paragraph indices of the rule's locations that have no runs
ZeroRunLocations(rule) ==
    {i \in ResolvedLocations(rule, Len(file.paragraphs)) :
        file.paragraphs[i + 1].runs = <<>>}

\* C20 as claimed: a paragraph with zero runs is never reported because of a
\* bold, font_name or font_size expectation, that is, only when the alignment
\* check fails.
C20_ZeroRunsNoFontViolation ==
    pc = "validated" =>
        \A rule \in Range(get_enabled_rules(rules)) :
            IsParagraphRule(rule) =>
                \A i \in ZeroRunLocations(rule) :
                    Reported(rule, i) => AlignmentMismatch(rule, file.paragraphs[i + 1])

\* C20 amended: a paragraph with zero runs is never reported because of a
\* font_name or font_size expectation; its bold is compared as False, so it
\* is reported exactly when its alignment check fails or the rule expects
\* bold true.  Under a rule that expects bold false and a font (PLAIN) a
\* centred paragraph without runs is therefore not reported at all.
C20_ZeroRunsBoldIsFalse ==
    pc = "validated" =>
        \A rule \in Range(get_enabled_rules(rules)) :
            IsParagraphRule(rule) =>
                \A i \in ZeroRunLocations(rule) :
                    Reported(rule, i) <=>
                        \/ AlignmentMismatch(rule, file.paragraphs[i + 1])
                        \/ ExpectsBold(rule)

\* a centred paragraph without runs is reported by COMPANY, which expects
\* bold, Arial and 14 pt, with bold recorded as None; the same paragraph in
\* the second row is checked by PLAIN, which expects bold false, Times and
\* 12 pt, and is not reported
C20_Witness ==
    /\ pc = "validated"
    /\ Len(file.paragraphs) = 2
    /\ file.paragraphs[1] = Paragraph("", "CENTER", <<>>)
    /\ file.paragraphs[2] = Paragraph("", "CENTER", <<>>)
    /\ Range(get_enabled_rules(rules)) = {RuleCompany, RulePlain}
    /\ 1 \in ZeroRunLocations(RulePlain)
    /\ ~Reported(RulePlain, 1)
    /\ \E k \in DOMAIN violations :
          /\ violations[k].rule_id = "COMPANY"
          /\ violations[k].location.paragraph = 0
          /\ violations[k].actual.alignment = "center"
          /\ violations[k].actual.bold = None

\* the properties of a paragraph whose sub-check under the rule fails
FailedChecks(rule, para) ==
    LET validation == Get(rule, "validation", <<>>)
        actB == get_paragraph_bold(para)
    IN {key \in {"alignment", "bold", "font_name", "font_size"} \cap DOMAIN validation :
           CASE key = "alignment" -> AlignmentMismatch(rule, para)
             [] key = "bold" ->
                   validation.bold # (IF actB = None THEN "False" ELSE actB)
             [] key = "font_name" ->
                   /\ para.runs # <<>>
                   /\ para.runs[1].font_name # None
                   /\ para.runs[1].font_name # validation.font_name
             [] key = "font_size" ->
                   /\ para.runs # <<>>
                   /\ para.runs[1].font_size # 0
                   /\ LengthPt(para.runs[1].font_size) # Number(validation.font_size)}

\* the violations reported for a rule id at paragraph index i
ReportedAt(rule_id, i) ==
    {k \in DOMAIN violations :
        /\ violations[k].rule_id = rule_id
        /\ "paragraph" \in DOMAIN violations[k].location
        /\ violations[k].location.paragraph = i}

\* the enabled paragraph rules of a rule id, by position, that select paragraph
\* i of the validated file and have a failing sub-check there
FailingRulesAt(rule_id, i) ==
    LET enabled == get_enabled_rules(rules)
    IN {j \in DOMAIN enabled :
           /\ Get(enabled[j], "rule_id", None) = rule_id
           /\ IsParagraphRule(enabled[j])
           /\ i \in ResolvedLocations(enabled[j], Len(file.paragraphs))
           /\ FailedChecks(enabled[j], file.paragraphs[i + 1]) # {}}

\* one violation per enabled rule and resolved location with a failing
\* sub-check, none otherwise, holding every checked property
OneViolationPerFailingLocation ==
    \A rule \in Range(get_enabled_rules(rules)) :
        IsParagraphRule(rule) =>
            \A i \in ResolvedLocations(rule, Len(file.paragraphs)) :
                /\ Cardinality(ReportedAt(rule.rule_id, i))
                      = Cardinality(FailingRulesAt(rule.rule_id, i))
                /\ \A k \in ReportedAt(rule.rule_id, i) :
                      /\ FailedChecks(rule, file.paragraphs[i + 1])
                            \subseteq DOMAIN violations[k].expected
                      /\ DOMAIN violations[k].actual = DOMAIN violations[k].expected
                      /\ violations[k].message.row = i + 1

\* C21 as claimed: for every enabled paragraph rule and resolved location
\* there is exactly one violation if a sub-check fails and none otherwise; it
\* holds the checked properties and its message lists exactly the properties
\* whose sub-check failed.
C21_MessageListsFailedChecks ==
    pc = "validated" =>
        /\ OneViolationPerFailingLocation
        /\ \A rule \in Range(get_enabled_rules(rules)) :
              IsParagraphRule(rule) =>
                  \A i \in ResolvedLocations(rule, Len(file.paragraphs)) :
                      \A k \in ReportedAt(rule.rule_id, i) :
                          Range(violations[k].message.differences)
                              = FailedChecks(rule, file.paragraphs[i + 1])

\* C21 amended: for every enabled paragraph rule and resolved location there
\* is exactly one violation if a sub-check fails and none otherwise; it holds
\* the checked properties and its message lists exactly the properties whose
\* recorded expected and actual values differ, among them every property
\* whose sub-check failed.
C21_MessageListsDifferingKeys ==
    pc = "validated" =>
        /\ OneViolationPerFailingLocation
        /\ \A rule \in Range(get_enabled_rules(rules)) :
              IsParagraphRule(rule) =>
                  \A i \in ResolvedLocations(rule, Len(file.paragraphs)) :
                      \A k \in ReportedAt(rule.rule_id, i) :
                          LET v == violations[k]
                              listed == Range(v.message.differences)
                          IN /\ listed = {key \in DOMAIN v.expected :
                                             v.expected[key] # v.actual[key]}
                             /\ FailedChecks(rule, file.paragraphs[i + 1])
                                   \subseteq listed

\* COMPANY reports a left-aligned paragraph whose run leaves font and bold
\* unset: alignment and bold fail, and the message also lists font_name and
\* font_size
C21_Witness ==
    /\ pc = "validated"
    /\ file.paragraphs # <<>>
    /\ file.paragraphs[1] = Paragraph("Body", "LEFT", <<Run(None, 0, None)>>)
    /\ \E k \in DOMAIN violations :
          /\ violations[k].rule_id = "COMPANY"
          /\ violations[k].location.paragraph = 0
          /\ violations[k].message.differences
                = <<"alignment", "bold", "font_name", "font_size">>
          /\ FailedChecks(RuleCompany, file.paragraphs[1]) = {"alignment", "bold"}

\* a row_from_top of one of the documented forms: an index as int or digit
\* string, a range, or all
DocumentedRow(rule) ==
    /\ "row_from_top" \in DOMAIN Get(rule, "location", <<>>)
    /\ rule.location.row_from_top.kind \in {"int", "digits", "range", "all"}

\* C22: for every documented row_from_top form and every document length n,
\* the paragraphs reported are among the 0-based indices inside the document
\* that the form selects; an index outside the document selects nothing,
\* raises nothing and is not mapped to another paragraph, so every
\* violation's location.paragraph is in 0..n-1 and its row is paragraph + 1.
C22_RowsResolveInsideDocument ==
    pc = "validated" =>
        /\ \A k \in DOMAIN violations :
              "paragraph" \in DOMAIN violations[k].location =>
                  /\ violations[k].location.paragraph \in 0..(Len(file.paragraphs) - 1)
                  /\ violations[k].location.row = violations[k].location.paragraph + 1
        /\ \A rule \in Range(get_enabled_rules(rules)) :
              (IsParagraphRule(rule) /\ DocumentedRow(rule)) =>
                  /\ ~RuleRaises(file, rule)
                  /\ \A f \in Range(OwnFindings(file, rule)) :
                        f.location.paragraph
                            \in ResolvedLocations(rule, Len(file.paragraphs))

\* the violations of a table rule recorded for row row_idx of table table_idx
TableRowViolations(rule_id, table_idx, row_idx) ==
    {k \in DOMAIN violations :
        /\ violations[k].rule_id = rule_id
        /\ {"table", "row"} \subseteq DOMAIN violations[k].location
        /\ violations[k].location.table = table_idx
        /\ violations[k].location.row = row_idx}

\* the last cell of the row has a run with a digit or '$' that is not bold
LastCellHasPlainAmount(row) ==
    /\ row.cells # <<>>
    /\ LET cell == row.cells[Len(row.cells)]
       IN \E q \in CellRuns(cell) :
             /\ HasDigitOrDollar(cell.paragraphs[q[1]].runs[q[2]].text)
             /\ cell.paragraphs[q[1]].runs[q[2]].bold # "True"

\* validate_document has returned the violations of the input document
ValidatedInput == pc = "validated" /\ ret.kind = "violations"

\* C23: under the current-period-bold rule a table row yields at most one
\* violation however many plain amounts and paragraphs its last cell has, the
\* header row yields none, and another row yields one exactly when its last
\* cell has a run with a digit or '$' that is not bold.
C23_OneViolationPerRow ==
    ValidatedInput =>
        \A t \in DOMAIN file.tables :
            \A r \in DOMAIN file.tables[t].rows :
                LET n == Cardinality(TableRowViolations(
                             "BALANCE_SHEET_CURRENT_PERIOD_BOLD", t - 1, r - 1))
                IN /\ n <= 1
                   /\ r = 1 => n = 0
                   /\ r > 1 => (n = 1 <=> LastCellHasPlainAmount(file.tables[t].rows[r]))

\* C24: under the row-height rule every row of every table is
\* compared, and it yields a violation exactly when its height differs from
\* the expected one by more than 0.05 cm.
C24_EveryRowCompared ==
    ValidatedInput =>
        \A t \in DOMAIN file.tables :
            \A r \in DOMAIN file.tables[t].rows :
                LET height == file.tables[t].rows[r].height
                IN TableRowViolations("TABLE_ROW_HEIGHT", t - 1, r - 1) # {}
                       <=> Abs(100 * height - 360000 * RuleRowHeight.validation.row_height)
                               > 1800000

\* the property map of the correction action of the violation's rule
ActionProperties(violation) ==
    Get(Get(get_rule_by_id(rules, violation.rule_id), "correction_action", <<>>),
        "properties", <<>>)

\* the run after holds the value of every property of props among font name,
\* font size, bold and italic, and the value of the run before for the others
RunFormatted(before, after, props) ==
    /\ after.font_name = IF "font_name" \in DOMAIN props
                         THEN props.font_name ELSE before.font_name
    /\ after.font_size = IF "font_size" \in DOMAIN props
                         THEN Pt(props.font_size) ELSE before.font_size
    /\ after.bold = IF "bold" \in DOMAIN props THEN props.bold ELSE before.bold
    /\ after.italic = IF "italic" \in DOMAIN props THEN props.italic ELSE before.italic

\* C25: an apply_formatting correction on an in-bounds paragraph sets the
\* alignment of the paragraph and, on each of its runs, font name, font size,
\* bold and italic, for the properties present in the action's property map,
\* and leaves the absent properties and every other paragraph, run and table
\* unchanged.
C25_FormattingSetsPresentProperties ==
    [][(pc = "correcting" /\ idx' = idx + 1) =>
         LET v == violations[order[idx + 1]]
             props == ActionProperties(v)
             p == v.location.paragraph + 1
         IN (ActionType(v) = "apply_formatting" /\ InBounds(v, doc)) =>
               /\ doc'.tables = doc.tables
               /\ Len(doc'.paragraphs) = Len(doc.paragraphs)
               /\ \A q \in DOMAIN doc.paragraphs :
                     q # p => doc'.paragraphs[q] = doc.paragraphs[q]
               /\ doc'.paragraphs[p].text = doc.paragraphs[p].text
               /\ doc'.paragraphs[p].alignment =
                     IF "alignment" \in DOMAIN props
                     THEN parse_alignment(props.alignment)
                     ELSE doc.paragraphs[p].alignment
               /\ Len(doc'.paragraphs[p].runs) = Len(doc.paragraphs[p].runs)
               /\ \A i \in DOMAIN doc.paragraphs[p].runs :
                     RunFormatted(doc.paragraphs[p].runs[i],
                                  doc'.paragraphs[p].runs[i], props)]_vars

\* C26: after apply_corrections has returned no violation is left pending:
\* the correction_status of every violation is the status of its result (the
\* timestamp is assigned in the same place as the status), also for a
\* violation whose attempt raised.
C26_NoViolationLeftPending ==
    (pc = "corrected" /\ job.mode = "rules") =>
        /\ \A i \in DOMAIN violations : violations[i].correction_status # "pending"
        /\ \A k \in DOMAIN correction_results :
              violations[attempts[k]].correction_status = correction_results[k].status

\* the ids of the rules get_enabled_rules returns
EnabledIds(rs) ==
    {Get(get_enabled_rules(rs)[i], "rule_id", None) : i \in DOMAIN get_enabled_rules(rs)}

\* C27: once disable_rule(id) has returned True, get_enabled_rules does not
\* hold the id until enable_rule(id) is called; in particular not after a
\* get_all_rules call that follows the disable_rule call, whether or not it
\* reloads the rules.
C27_DisabledUntilEnabled ==
    [][\A force_reload \in BOOLEAN :
          (/\ ret.kind = "disable_rule"
           /\ ret.value = TRUE
           /\ GetAllRules(force_reload))
          => /\ ret.rule_id \notin EnabledIds(rules)
             /\ ret.rule_id \notin EnabledIds(rules')]_vars

\* the document apply_structural_corrections saves for the document d
StructuralOutput(d) ==
    apply_cover_page_formatting(apply_structural_corrections(d).doc)

\* C28: apply_structural_corrections on a document that is itself the output
\* of apply_structural_corrections inserts no paragraph and saves the
\* document as it was opened: the same paragraphs with the same alignments
\* and run properties, also when several paragraphs match the title or the
\* period text.
C28_StructuralIdempotent ==
    (pc = "done" /\ job.mode = "structural" /\ opened = StructuralOutput(file)) =>
        /\ ret.rows_inserted = 0
        /\ ret.total_paragraphs = Len(opened.paragraphs)
        /\ out = <<opened>>

\* the second call ran on a cover page with two title paragraphs, the last
\* of them followed by the period paragraph, into which the first call had
\* inserted the blank row and which it had formatted
C28_Witness ==
    /\ pc = "done"
    /\ job.mode = "structural"
    /\ Len(file.paragraphs) = CoverStart + 3
    /\ TitleMatch(file.paragraphs[CoverStart + 1])
    /\ TitleMatch(file.paragraphs[CoverStart + 2])
    /\ PeriodMatch(file.paragraphs[CoverStart + 3])
    /\ opened = StructuralOutput(file)
    /\ Len(opened.paragraphs) = Len(file.paragraphs) + 1
    /\ opened.paragraphs[CoverStart + 1].alignment = "CENTER"
    /\ ret.rows_inserted = 0
    /\ out = <<opened>>

(***************************************************************************)
(* The pipeline on a rule set that holds a rule_id twice                   *)
(***************************************************************************)
\* a second rule with the rule_id COMPANY: another row, priority and action
RuleCompanyTwin ==
    [rule_id |-> "COMPANY", category |-> "cover_page", priority |-> 1,
     location |-> [row_from_top |-> [kind |-> "int", n |-> 2]],
     validation |-> [alignment |-> "center"],
     correction_action |->
        [type |-> "apply_alignment", properties |-> [alignment |-> "center"]]]

TwinStores ==
    {RuleSource(<<RuleCompany, RuleCompanyTwin>>),
     RuleSource(<<RuleCompanyTwin, RuleCompany>>)}

InitTwin ==
    /\ pc = "idle"
    /\ file \in Docs
    /\ \E src \in TwinStores : InitStore(src)
    /\ violations = <<>>
    /\ InitIdle
    /\ io = IoOk

SpecTwin == InitTwin /\ [][Next]_vars

\* C29: for every violation found by validating against a rule set that
\* load_rules accepts, the rule the corrector looks up by the violation's
\* rule_id, for its priority and its correction action, is the rule whose
\* evaluation produced the violation, also when two rules of the set have
\* the same rule_id.
C29_LookupFindsProducer ==
    (pc = "validated" /\ validate_rules_structure(rules)) =>
        \A k \in DOMAIN violations :
            \A rule \in Range(get_enabled_rules(rules)) :
                (/\ rule.rule_id = violations[k].rule_id
                 /\ Finding(violations[k]) \in Range(OwnFindings(file, rule)))
                => /\ get_rule_by_id(rules, violations[k].rule_id) = rule
                   /\ get_rule_priority(rules, violations[k].rule_id)
                         = Get(rule, "priority", 999)

\* the cells at column index col_idx of the rows of a table that have one
ColumnCells(table, col_idx) ==
    {table.rows[r].cells[col_idx + 1] :
        r \in {r \in DOMAIN table.rows : col_idx < Len(table.rows[r].cells)}}

\* C30: the document apply_complete_corrections saves has, in its first
\* table, every run of column 2 bold and no run of column 3 bold, and the
\* validation of that document with the current-period-bold rule enabled
\* reports no violation for that table.
C30_CompleteOutputValidates ==
    (/\ pc = "revalidated"
     /\ job.mode = "complete"
     /\ out[Len(out)].tables # <<>>
     /\ "BALANCE_SHEET_CURRENT_PERIOD_BOLD" \in EnabledIds(rules))
    => LET table == out[Len(out)].tables[1]
       IN /\ \A cell \in ColumnCells(table, 2) : CellIsBold(cell)
          /\ \A cell \in ColumnCells(table, 3) :
                \A q \in CellRuns(cell) :
                    cell.paragraphs[q[1]].runs[q[2]].bold # "True"
          /\ \A k \in DOMAIN violations :
                (/\ violations[k].rule_id = "BALANCE_SHEET_CURRENT_PERIOD_BOLD"
                 /\ "table" \in DOMAIN violations[k].location)
                => violations[k].location.table # 0

====
